---- MODULE Spec2Model ----
(***************************************************************************)
(* Request distribution and adaptive load balancing of alertflow-svc       *)
(* (backend/alertflow-svc/src/core/distribution.py): ServerNode with its   *)
(* circuit breaker, DistributionSystem (registry, router, route cache) and *)
(* AdaptiveLoadBalancer (connection accounting, feedback, retry loop).     *)
(*                                                                         *)
(* Representation.  Time is in whole seconds.  ServerNode objects live in  *)
(* `heap` and are named by their index, so that the registry, the cached   *)
(* RouteResults and the running coroutines share one object the way the    *)
(* Python references do.  Floats are fixed point: weight in millionths     *)
(* (1.0 = 1000000), avg_response_time_ms in thousandths of a millisecond,  *)
(* load_score as an exact fraction.  Every synchronous method is one       *)
(* atomic step; execute_with_retry is cut at its two awaits.               *)
(***************************************************************************)
EXTENDS Integers, Sequences, FiniteSets, TLC

VARIABLES
    now,               \* time.time()
    heap,              \* the ServerNode objects ever constructed
    nodes,             \* DistributionSystem._nodes: refs in dict (insertion) order
    route_cache,       \* DistributionSystem._route_cache: cache_key -> RouteResult
    cache_timestamps,  \* DistributionSystem._cache_timestamps: cache_key -> time
    feedback_history,  \* AdaptiveLoadBalancer._feedback_history
    tasks,             \* running execute_with_retry coroutines
    last,              \* observer: the call made by the last step and what it returned
    hist,              \* observer: per object, counts of calls made on it
    routed             \* observer: per cache key, the last route_request call

vars == <<now, heap, nodes, route_cache, cache_timestamps, feedback_history,
          tasks, last, hist, routed>>

----------------------------------------------------------------------------
(* Program constants *)

MAX_RETRIES == 3
RETRY_BASE_DELAY == 1
RETRY_MAX_DELAY == 30
CIRCUIT_FAILURE_THRESHOLD == 5
CIRCUIT_RECOVERY_TIMEOUT == 60
cache_ttl == 30
HISTORY_LIMIT == 10000
HISTORY_KEEP == 5000
WeightOne == 1000000          \* ServerNode.weight = 1.0
WeightMax == 2000000          \* 2.0
WeightMin == 100000           \* 0.1
learning_rate == 100000       \* 0.1
AvgScale == 1000              \* avg_response_time_ms is kept in 1/1000 ms

RequestTypes == {"IMAGE_ANALYSIS", "REAL_TIME_DETECTION", "BATCH_PROCESSING",
                 "DATABASE_QUERY", "GEO_SPATIAL", "MACHINE_LEARNING"}

NodeStatus == {"HEALTHY", "DEGRADED", "UNHEALTHY", "CIRCUIT_OPEN"}

PRIORITY_TIMEOUTS(priority) ==
    CASE priority = "CRITICAL" -> 5
      [] priority = "HIGH" -> 10
      [] priority = "MEDIUM" -> 30
      [] priority = "LOW" -> 60
      [] OTHER -> 30

\* DistributionSystem._service_routing.get(request_type, [])
service_routing(request_type) ==
    CASE request_type = "IMAGE_ANALYSIS" -> <<"minespotai-svc">>
      [] request_type = "REAL_TIME_DETECTION" -> <<"minespotai-svc">>
      [] request_type = "BATCH_PROCESSING" -> <<"minespotai-svc", "pipeline-svc">>
      [] request_type = "DATABASE_QUERY" -> <<"api-gateway">>
      [] request_type = "GEO_SPATIAL" -> <<"minespotai-svc", "api-gateway">>
      [] request_type = "MACHINE_LEARNING" -> <<"minespotai-svc">>
      [] OTHER -> <<>>

----------------------------------------------------------------------------
(* Helpers *)

Range(s) == {s[i] : i \in DOMAIN s}
Max2(a, b) == IF a >= b THEN a ELSE b
Min2(a, b) == IF a <= b THEN a ELSE b

RECURSIVE Pow2(_)
Pow2(n) == IF n = 0 THEN 1 ELSE 2 * Pow2(n - 1)

\* Return value None
None == [ok |-> FALSE]

----------------------------------------------------------------------------
(* ServerNode *)

ServerNode(node_id, service_name, cpu, mem, conns, max_conns) ==
    [node_id |-> node_id,
     service_name |-> service_name,
     status |-> "HEALTHY",
     cpu_usage |-> cpu,
     memory_usage |-> mem,
     active_connections |-> conns,
     max_connections |-> max_conns,
     avg_response_time_ms |-> 0,
     request_count |-> 0,
     error_count |-> 0,
     weight |-> WeightOne,
     consecutive_failures |-> 0,
     circuit_opened_at |-> 0]

\* ServerNode.load_score as the fraction num / (1000 * den)
load_score(n) ==
    LET m == Max2(n.max_connections, 1)
    IN [num |-> (4 * n.cpu_usage + 3 * n.memory_usage) * m
                + 300 * n.active_connections,
        den |-> m]

ScoreLeq(a, b) == a.num * b.den <= b.num * a.den
ScoreLess(a, b) == a.num * b.den < b.num * a.den

\* is_available that reports every node available
is_available_open(n, t) == [ret |-> TRUE, node |-> n]

\* is_available without the recovery branch: an open circuit stays open
is_available_latched(n, t) ==
    [ret |-> n.status \in {"HEALTHY", "DEGRADED"}, node |-> n]

\* is_available with the recovery at the boundary: >= instead of >
is_available_inclusive(n, t) ==
    IF n.status = "CIRCUIT_OPEN"
    THEN IF t - n.circuit_opened_at >= CIRCUIT_RECOVERY_TIMEOUT
         THEN [ret |-> TRUE,
               node |-> [n EXCEPT !.status = "DEGRADED",
                                  !.consecutive_failures = 0]]
         ELSE [ret |-> FALSE, node |-> n]
    ELSE [ret |-> n.status \in {"HEALTHY", "DEGRADED"}, node |-> n]

\* is_available whose recovery starts the node afresh, counters included
is_available_afresh(n, t) ==
    IF n.status = "CIRCUIT_OPEN"
    THEN IF t - n.circuit_opened_at > CIRCUIT_RECOVERY_TIMEOUT
         THEN [ret |-> TRUE,
               node |-> [n EXCEPT !.status = "DEGRADED",
                                  !.consecutive_failures = 0,
                                  !.request_count = 0,
                                  !.error_count = 0]]
         ELSE [ret |-> FALSE, node |-> n]
    ELSE [ret |-> n.status \in {"HEALTHY", "DEGRADED"}, node |-> n]

\* is_available with the recovery branch taken whenever the timeout has
\* elapsed since circuit_opened_at, whatever the status
is_available_unguarded(n, t) ==
    IF n.status \in {"CIRCUIT_OPEN", "DEGRADED"}
    THEN IF t - n.circuit_opened_at > CIRCUIT_RECOVERY_TIMEOUT
         THEN [ret |-> TRUE,
               node |-> [n EXCEPT !.status = "DEGRADED",
                                  !.consecutive_failures = 0]]
         ELSE [ret |-> n.status = "DEGRADED", node |-> n]
    ELSE [ret |-> n.status \in {"HEALTHY", "DEGRADED"}, node |-> n]

\* ServerNode.is_available at time t: the value returned and the object afterwards
is_available(n, t) ==
    IF n.status = "CIRCUIT_OPEN"
    THEN IF t - n.circuit_opened_at > CIRCUIT_RECOVERY_TIMEOUT
         THEN [ret |-> TRUE,
               node |-> [n EXCEPT !.status = "DEGRADED",
                                  !.consecutive_failures = 0]]
         ELSE [ret |-> FALSE, node |-> n]
    ELSE [ret |-> n.status \in {"HEALTHY", "DEGRADED"}, node |-> n]
----------------------------------------------------------------------------
(* DistributionSystem.  An operator takes the engine state                  *)
(*   s = [heap, nodes, route_cache, cache_timestamps, feedback_history]     *)
(* and the time t of the call, and gives the state afterwards (and, for a   *)
(* method that returns something, [s |-> state, ret |-> value]).            *)

\* self._nodes.get(node_id): the ref of the registered object, 0 for None
Lookup(s, node_id) ==
    IF \E i \in DOMAIN s.nodes : s.heap[s.nodes[i]].node_id = node_id
    THEN s.nodes[CHOOSE i \in DOMAIN s.nodes : s.heap[s.nodes[i]].node_id = node_id]
    ELSE 0

\* the cache key made of the request type alone
cache_key_by_type(request_type, priority) == request_type \o ":"

\* f"{request_type.value}:{priority}"
cache_key(request_type, priority) == request_type \o ":" \o priority

\* max in place of min: the first element with the greatest key
max_by_load(hp, refs) ==
    refs[CHOOSE i \in DOMAIN refs :
            /\ \A j \in DOMAIN refs :
                  ScoreLeq(load_score(hp[refs[j]]), load_score(hp[refs[i]]))
            /\ \A j \in 1..(i - 1) :
                  ScoreLess(load_score(hp[refs[j]]), load_score(hp[refs[i]]))]

\* min(available_nodes, key=load_score): the first element with the least key
min_by_load(hp, refs) ==
    refs[CHOOSE i \in DOMAIN refs :
            /\ \A j \in DOMAIN refs :
                  ScoreLeq(load_score(hp[refs[i]]), load_score(hp[refs[j]]))
            /\ \A j \in 1..(i - 1) :
                  ScoreLess(load_score(hp[refs[i]]), load_score(hp[refs[j]]))]

\* DistributionSystem.register_node
register_node_alone(s, obj) ==
    LET ref == Len(s.heap) + 1
    IN [s EXCEPT !.heap = Append(s.heap, obj), !.nodes = <<ref>>]

register_node(s, obj) ==
    LET ref == Len(s.heap) + 1
        hp == Append(s.heap, obj)
        old == Lookup(s, obj.node_id)
    IN [s EXCEPT !.heap = hp,
                 !.nodes = IF old = 0
                           THEN Append(s.nodes, ref)
                           ELSE [i \in DOMAIN s.nodes |->
                                   IF s.nodes[i] = old THEN ref ELSE s.nodes[i]]]

\* DistributionSystem.unregister_node
unregister_node(s, node_id) ==
    LET old == Lookup(s, node_id)
    IN IF old = 0 THEN s
       ELSE [s EXCEPT !.nodes = SelectSeq(s.nodes, LAMBDA r : r # old)]

\* an entry is still served when its age equals the TTL
cache_lookup_inclusive(s, key, t) ==
    LET ts == IF key \in DOMAIN s.cache_timestamps
              THEN s.cache_timestamps[key] ELSE 0
        live == key \in DOMAIN s.route_cache /\ t - ts <= cache_ttl
        cref == IF live THEN s.route_cache[key].node ELSE 0
    IN [hit |-> live /\ is_available(s.heap[cref], t).ret,
        heap |-> IF live
                 THEN [s.heap EXCEPT ![cref] = is_available(@, t).node]
                 ELSE s.heap]

\* the cache check with the cached node not asked whether it is available
cache_lookup_stale(s, key, t) ==
    LET ts == IF key \in DOMAIN s.cache_timestamps
              THEN s.cache_timestamps[key] ELSE 0
    IN [hit |-> key \in DOMAIN s.route_cache /\ t - ts < cache_ttl,
        heap |-> s.heap]

\* the cache check with the age of the entry compared the wrong way round
cache_lookup_inverted(s, key, t) ==
    LET ts == IF key \in DOMAIN s.cache_timestamps
              THEN s.cache_timestamps[key] ELSE 0
        live == key \in DOMAIN s.route_cache /\ t - ts > cache_ttl
        cref == IF live THEN s.route_cache[key].node ELSE 0
    IN [hit |-> live /\ is_available(s.heap[cref], t).ret,
        heap |-> IF live
                 THEN [s.heap EXCEPT ![cref] = is_available(@, t).node]
                 ELSE s.heap]

\* the cache check of route_request: whether the entry of the key is served,
\* and the objects afterwards (is_available runs on the node of a live entry)
cache_lookup(s, key, t) ==
    LET ts == IF key \in DOMAIN s.cache_timestamps
              THEN s.cache_timestamps[key] ELSE 0
        live == key \in DOMAIN s.route_cache /\ t - ts < cache_ttl
        cref == IF live THEN s.route_cache[key].node ELSE 0
    IN [hit |-> live /\ is_available(s.heap[cref], t).ret,
        heap |-> IF live
                 THEN [s.heap EXCEPT ![cref] = is_available(@, t).node]
                 ELSE s.heap]

\* DistributionSystem.route_request
route_request(s, request_type, priority, t) ==
    LET key == cache_key(request_type, priority)
        hp1 == cache_lookup(s, key, t).heap
        hit == cache_lookup(s, key, t).hit
        compatible_services == service_routing(request_type)
        \* the list comprehension calls is_available on every registered node
        hp2 == [r \in DOMAIN hp1 |->
                  IF r \in Range(s.nodes) THEN is_available(hp1[r], t).node
                  ELSE hp1[r]]
        available_nodes ==
            SelectSeq(s.nodes,
                      LAMBDA r : /\ is_available(hp1[r], t).ret
                                 /\ hp1[r].service_name \in Range(compatible_services))
        best_node == min_by_load(hp2, available_nodes)
        result == [ok |-> TRUE,
                   node |-> best_node,
                   request_type |-> request_type,
                   priority |-> priority,
                   timeout |-> PRIORITY_TIMEOUTS(priority),
                   attempt |-> 1,
                   cached |-> FALSE]
    IN IF hit
       THEN [s |-> [s EXCEPT !.heap = hp1, !.route_cache[key].cached = TRUE],
             ret |-> [s.route_cache[key] EXCEPT !.cached = TRUE]]
       ELSE IF compatible_services = <<>>
       THEN [s |-> [s EXCEPT !.heap = hp1], ret |-> None]
       ELSE IF available_nodes = <<>>
       THEN [s |-> [s EXCEPT !.heap = hp2], ret |-> None]
       ELSE [s |-> [s EXCEPT
                      !.heap = hp2,
                      !.route_cache =
                          [k \in DOMAIN s.route_cache \cup {key} |->
                             IF k = key THEN result ELSE s.route_cache[k]],
                      !.cache_timestamps =
                          [k \in DOMAIN s.cache_timestamps \cup {key} |->
                             IF k = key THEN t ELSE s.cache_timestamps[k]]],
             ret |-> result]

\* alpha * response_time_ms + (1 - alpha) * avg, alpha = 0.3, in 1/1000 ms
ema(avg, response_time_ms) ==
    (3 * response_time_ms * AvgScale + 7 * avg) \div 10

\* a success on a node whose circuit is open makes it DEGRADED
report_success_half_closes(s, node_id, response_time_ms) ==
    LET ref == Lookup(s, node_id)
    IN IF ref = 0 THEN s
       ELSE [s EXCEPT !.heap[ref] =
               [@ EXCEPT !.request_count = @ + 1,
                         !.consecutive_failures = 0,
                         !.avg_response_time_ms = ema(@, response_time_ms),
                         !.status = IF @ = "DEGRADED" THEN "HEALTHY"
                                    ELSE IF @ = "CIRCUIT_OPEN" THEN "DEGRADED"
                                    ELSE @]]

\* report_success that leaves the status as it is
report_success_unpromoted(s, node_id, response_time_ms) ==
    LET ref == Lookup(s, node_id)
    IN IF ref = 0 THEN s
       ELSE [s EXCEPT !.heap[ref] =
               [@ EXCEPT !.request_count = @ + 1,
                         !.consecutive_failures = 0,
                         !.avg_response_time_ms = ema(@, response_time_ms)]]

\* report_success that puts the node back to HEALTHY whatever its status
report_success_closes(s, node_id, response_time_ms) ==
    LET ref == Lookup(s, node_id)
    IN IF ref = 0 THEN s
       ELSE [s EXCEPT !.heap[ref] =
               [@ EXCEPT !.request_count = @ + 1,
                         !.consecutive_failures = 0,
                         !.avg_response_time_ms = ema(@, response_time_ms),
                         !.status = "HEALTHY"]]

\* report_success with a record made for a node_id the registry does not hold
report_success_upsert(s, node_id, response_time_ms) ==
    LET s0 == IF Lookup(s, node_id) = 0
              THEN register_node(s, ServerNode(node_id, "", 0, 0, 0, 100))
              ELSE s
        ref == Lookup(s0, node_id)
    IN [s0 EXCEPT !.heap[ref] =
          [@ EXCEPT !.request_count = @ + 1,
                    !.consecutive_failures = 0,
                    !.avg_response_time_ms = ema(@, response_time_ms),
                    !.status = IF @ = "DEGRADED" THEN "HEALTHY" ELSE @]]

\* DistributionSystem.report_success
report_success(s, node_id, response_time_ms) ==
    LET ref == Lookup(s, node_id)
    IN IF ref = 0 THEN s
       ELSE [s EXCEPT !.heap[ref] =
               [@ EXCEPT !.request_count = @ + 1,
                         !.consecutive_failures = 0,
                         !.avg_response_time_ms = ema(@, response_time_ms),
                         !.status = IF @ = "DEGRADED" THEN "HEALTHY" ELSE @]]

\* report_failure that opens the circuit of a DEGRADED node at once
report_failure_half_open(s, node_id, t) ==
    LET ref == Lookup(s, node_id)
        n == s.heap[ref]
        failures == n.consecutive_failures + 1
        opens == failures >= CIRCUIT_FAILURE_THRESHOLD \/ n.status = "DEGRADED"
    IN IF ref = 0 THEN s
       ELSE [s EXCEPT !.heap[ref] =
               [@ EXCEPT !.request_count = @ + 1,
                         !.error_count = @ + 1,
                         !.consecutive_failures = failures,
                         !.status = IF opens THEN "CIRCUIT_OPEN" ELSE @,
                         !.circuit_opened_at = IF opens THEN t ELSE @]]

\* report_failure that marks the node UNHEALTHY from its third failure in a
\* row until the circuit opens
report_failure_unhealthy(s, node_id, t) ==
    LET ref == Lookup(s, node_id)
        n == s.heap[ref]
        failures == n.consecutive_failures + 1
    IN IF ref = 0 THEN s
       ELSE [s EXCEPT !.heap[ref] =
               [@ EXCEPT !.request_count = @ + 1,
                         !.error_count = @ + 1,
                         !.consecutive_failures = failures,
                         !.status = IF failures >= CIRCUIT_FAILURE_THRESHOLD
                                    THEN "CIRCUIT_OPEN"
                                    ELSE IF failures >= 3 THEN "UNHEALTHY"
                                    ELSE @,
                         !.circuit_opened_at =
                             IF failures >= CIRCUIT_FAILURE_THRESHOLD
                             THEN t ELSE @]]

\* report_failure that counts the error but not the request
report_failure_uncounted(s, node_id, t) ==
    LET ref == Lookup(s, node_id)
        n == s.heap[ref]
        failures == n.consecutive_failures + 1
    IN IF ref = 0 THEN s
       ELSE [s EXCEPT !.heap[ref] =
               [@ EXCEPT !.error_count = @ + 1,
                         !.consecutive_failures = failures,
                         !.status = IF failures >= CIRCUIT_FAILURE_THRESHOLD
                                    THEN "CIRCUIT_OPEN" ELSE @,
                         !.circuit_opened_at =
                             IF failures >= CIRCUIT_FAILURE_THRESHOLD
                             THEN t ELSE @]]

\* report_failure with the circuit opened only above the threshold
report_failure_above(s, node_id, t) ==
    LET ref == Lookup(s, node_id)
        n == s.heap[ref]
        failures == n.consecutive_failures + 1
    IN IF ref = 0 THEN s
       ELSE [s EXCEPT !.heap[ref] =
               [@ EXCEPT !.request_count = @ + 1,
                         !.error_count = @ + 1,
                         !.consecutive_failures = failures,
                         !.status = IF failures > CIRCUIT_FAILURE_THRESHOLD
                                    THEN "CIRCUIT_OPEN" ELSE @,
                         !.circuit_opened_at =
                             IF failures > CIRCUIT_FAILURE_THRESHOLD
                             THEN t ELSE @]]

\* DistributionSystem.report_failure
report_failure(s, node_id, t) ==
    LET ref == Lookup(s, node_id)
        n == s.heap[ref]
        failures == n.consecutive_failures + 1
    IN IF ref = 0 THEN s
       ELSE [s EXCEPT !.heap[ref] =
               [@ EXCEPT !.request_count = @ + 1,
                         !.error_count = @ + 1,
                         !.consecutive_failures = failures,
                         !.status = IF failures >= CIRCUIT_FAILURE_THRESHOLD
                                    THEN "CIRCUIT_OPEN" ELSE @,
                         !.circuit_opened_at =
                             IF failures >= CIRCUIT_FAILURE_THRESHOLD
                             THEN t ELSE @]]

\* DistributionSystem.get_nodes_status: the snapshot is built by reading
\* is_available of every registered node
get_nodes_status(s, t) ==
    [s |-> [s EXCEPT !.heap =
              [r \in DOMAIN s.heap |->
                 IF r \in Range(s.nodes) THEN is_available(s.heap[r], t).node
                 ELSE s.heap[r]]],
     ret |-> [i \in DOMAIN s.nodes |->
                [node_id |-> s.heap[s.nodes[i]].node_id,
                 status |-> s.heap[s.nodes[i]].status,
                 is_available |-> is_available(s.heap[s.nodes[i]], t).ret]]]

----------------------------------------------------------------------------
(* AdaptiveLoadBalancer *)

\* select_node that refuses a node whose connections are at its maximum
select_node_admitting(s, request_type, priority, t) ==
    LET r == route_request(s, request_type, priority, t)
    IN IF r.ret.ok /\ r.s.heap[r.ret.node].active_connections
                         < r.s.heap[r.ret.node].max_connections
       THEN [s |-> [r.s EXCEPT !.heap[r.ret.node].active_connections = @ + 1],
             ret |-> r.ret]
       ELSE [s |-> r.s, ret |-> None]

\* AdaptiveLoadBalancer.select_node
select_node(s, request_type, priority, t) ==
    LET r == route_request(s, request_type, priority, t)
    IN IF r.ret.ok
       THEN [s |-> [r.s EXCEPT !.heap[r.ret.node].active_connections = @ + 1],
             ret |-> r.ret]
       ELSE r

\* release_node without the max(0, .)
release_node_unfloored(s, node_id) ==
    LET ref == Lookup(s, node_id)
    IN IF ref = 0 THEN s
       ELSE [s EXCEPT !.heap[ref].active_connections = @ - 1]

\* AdaptiveLoadBalancer.release_node
release_node(s, node_id) ==
    LET ref == Lookup(s, node_id)
    IN IF ref = 0 THEN s
       ELSE [s EXCEPT !.heap[ref].active_connections = Max2(0, @ - 1)]

\* max(0.5, 1.0 - response_time_ms / 5000.0), in millionths
perf_factor(response_time_ms) ==
    Max2(500000, 1000000 - 200 * response_time_ms)

\* the adjustment without the min(2.0, .) and max(0.1, .)
adjust_weight_unclamped(w, success, response_time_ms) ==
    IF success
    THEN w + perf_factor(response_time_ms) \div (WeightOne \div learning_rate)
    ELSE w - learning_rate * 2

\* the weight adjustment of record_feedback
adjust_weight(w, success, response_time_ms) ==
    IF success
    THEN Min2(WeightMax, w + perf_factor(response_time_ms) \div (WeightOne \div learning_rate))
    ELSE Max2(WeightMin, w - learning_rate * 2)

\* the trim keeps the oldest records
append_history_oldest(h, rec) ==
    LET h1 == Append(h, rec)
    IN IF Len(h1) > HISTORY_LIMIT
       THEN SubSeq(h1, 1, HISTORY_KEEP)
       ELSE h1

\* the bounded append to _feedback_history
append_history(h, rec) ==
    LET h1 == Append(h, rec)
    IN IF Len(h1) > HISTORY_LIMIT
       THEN SubSeq(h1, Len(h1) - HISTORY_KEEP + 1, Len(h1))
       ELSE h1

\* record_feedback that returns early for a node_id the registry does not
\* hold
record_feedback_known_only(s, node_id, success, response_time_ms, request_type, t) ==
    LET s1 == IF success THEN report_success(s, node_id, response_time_ms)
              ELSE report_failure(s, node_id, t)
        s2 == release_node(s1, node_id)
        ref == Lookup(s2, node_id)
    IN IF ref = 0 THEN s
       ELSE [s2 EXCEPT !.heap[ref].weight =
                          adjust_weight(@, success, response_time_ms),
                       !.feedback_history =
                          append_history(@, [node_id |-> node_id,
                                             success |-> success,
                                             response_time_ms |-> response_time_ms,
                                             request_type |-> request_type,
                                             timestamp |-> t])]

\* AdaptiveLoadBalancer.record_feedback
record_feedback(s, node_id, success, response_time_ms, request_type, t) ==
    LET s1 == IF success THEN report_success(s, node_id, response_time_ms)
              ELSE report_failure(s, node_id, t)
        s2 == release_node(s1, node_id)
        ref == Lookup(s2, node_id)
        s3 == IF ref = 0 THEN s2
              ELSE [s2 EXCEPT !.heap[ref].weight =
                      adjust_weight(@, success, response_time_ms)]
    IN [s3 EXCEPT !.feedback_history =
          append_history(@, [node_id |-> node_id,
                             success |-> success,
                             response_time_ms |-> response_time_ms,
                             request_type |-> request_type,
                             timestamp |-> t])]

\* round(num / den, .) to the nearest integer, ties to the even one
RoundHalfEven(num, den) ==
    LET q == num \div den
        rem == num % den
    IN IF 2 * rem > den \/ (2 * rem = den /\ q % 2 = 1) THEN q + 1 ELSE q

\* AdaptiveLoadBalancer.get_stats: success_rate in ten-thousandths,
\* avg_response_time_ms in hundredths of a millisecond
get_stats(s, t) ==
    LET h == s.feedback_history
        total == Len(h)
        successes == Cardinality({i \in DOMAIN h : h[i].success})
        RECURSIVE Sum(_)
        Sum(i) == IF i = 0 THEN 0 ELSE h[i].response_time_ms + Sum(i - 1)
        r == get_nodes_status(s, t)
    IN [s |-> r.s,
        ret |-> [total_requests |-> total,
                 success_rate |-> RoundHalfEven(10000 * successes,
                                                Max2(total, 1)),
                 avg_response_time_ms |->
                     IF total > 0 THEN RoundHalfEven(100 * Sum(total), total)
                     ELSE 0,
                 nodes |-> r.ret]]

----------------------------------------------------------------------------
(* State, observers and the steps of the callers *)

\* the engine state as one value, and its assignment to the variables
S == [heap |-> heap, nodes |-> nodes, route_cache |-> route_cache,
      cache_timestamps |-> cache_timestamps,
      feedback_history |-> feedback_history]

Becomes(s) ==
    /\ heap' = s.heap
    /\ nodes' = s.nodes
    /\ route_cache' = s.route_cache
    /\ cache_timestamps' = s.cache_timestamps
    /\ feedback_history' = s.feedback_history

\* hist[r].fails: report_failure calls on object r since the last
\* report_success on it; hist[r].fails_np: the same, also restarted by the
\* recovery probe (the CIRCUIT_OPEN -> DEGRADED transition of is_available);
\* hist[r].conn0: active_connections of r when it was registered.
\* failed / succeeded: the object a report was made on in this step (0: none).
Observe(s, failed, succeeded) ==
    hist' = [r \in DOMAIN s.heap |->
               LET h == IF r \in DOMAIN hist THEN hist[r]
                        ELSE [fails |-> 0, fails_np |-> 0,
                              conn0 |-> s.heap[r].active_connections]
                   probed == /\ r \in DOMAIN heap
                             /\ heap[r].status = "CIRCUIT_OPEN"
                             /\ s.heap[r].status = "DEGRADED"
               IN IF r = succeeded THEN [h EXCEPT !.fails = 0, !.fails_np = 0]
                  ELSE IF r = failed
                  THEN [h EXCEPT !.fails = @ + 1, !.fails_np = @ + 1]
                  ELSE IF probed THEN [h EXCEPT !.fails_np = 0]
                  ELSE h]

\* the registered objects that an availability check at time t finds available
AvailableAt(s, t) ==
    {r \in Range(s.nodes) : is_available(s.heap[r], t).ret}

\* routed[key]: when route_request was last called for the key, the node it
\* returned (0: None), the nodes available at that call, when a call for the
\* key last returned a result that was not served from the cache, and the
\* node returned by the call before (0: None or no such call)
ObserveRoute(request_type, priority, r) ==
    LET key == cache_key(request_type, priority)
        rec == [t |-> now,
                node |-> IF r.ret.ok THEN r.ret.node ELSE 0,
                avail |-> AvailableAt(S, now),
                fresh |-> IF r.ret.ok /\ ~r.ret.cached THEN now
                          ELSE IF key \in DOMAIN routed THEN routed[key].fresh
                          ELSE -1,
                prev |-> IF key \in DOMAIN routed THEN routed[key].node ELSE 0]
    IN routed' = [k \in DOMAIN routed \cup {key} |->
                    IF k = key THEN rec ELSE routed[k]]

TotalRequests ==
    LET RECURSIVE Sum(_)
        Sum(i) == IF i = 0 THEN 0 ELSE heap[i].request_count + Sum(i - 1)
    IN Sum(Len(heap))

\* no object has more than k connections over those it was registered with
ConnectionsBelow(k) ==
    \A r \in DOMAIN heap : heap[r].active_connections < hist[r].conn0 + k

\* node_id has been released fewer than k times below its registered count
ReleasesBelow(node_id, k) ==
    LET r == Lookup(S, node_id)
    IN r # 0 => heap[r].active_connections + k > hist[r].conn0
                \/ heap[r].active_connections = 0

\* time passes
Tick(d) ==
    /\ now' = now + d
    /\ last' = [op |-> "tick"]
    /\ UNCHANGED <<heap, nodes, route_cache, cache_timestamps,
                   feedback_history, tasks, hist, routed>>

RouteRequest(request_type, priority) ==
    LET r == route_request(S, request_type, priority, now)
    IN /\ Becomes(r.s)
       /\ Observe(r.s, 0, 0)
       /\ last' = [op |-> "route_request", request_type |-> request_type,
                   priority |-> priority, ret |-> r.ret]
       /\ ObserveRoute(request_type, priority, r)
       /\ UNCHANGED <<now, tasks>>

SelectNode(request_type, priority) ==
    LET r == select_node(S, request_type, priority, now)
    IN /\ Becomes(r.s)
       /\ Observe(r.s, 0, 0)
       /\ last' = [op |-> "select_node", request_type |-> request_type,
                   priority |-> priority, ret |-> r.ret]
       /\ ObserveRoute(request_type, priority, r)
       /\ UNCHANGED <<now, tasks>>

ReleaseNode(node_id) ==
    LET s == release_node(S, node_id)
    IN /\ Becomes(s)
       /\ Observe(s, 0, 0)
       /\ last' = [op |-> "release_node", node_id |-> node_id]
       /\ UNCHANGED <<now, tasks, routed>>

ReportSuccess(node_id, response_time_ms) ==
    LET s == report_success(S, node_id, response_time_ms)
    IN /\ Becomes(s)
       /\ Observe(s, 0, Lookup(S, node_id))
       /\ last' = [op |-> "report_success", node_id |-> node_id,
                   response_time_ms |-> response_time_ms]
       /\ UNCHANGED <<now, tasks, routed>>

ReportFailure(node_id) ==
    LET s == report_failure(S, node_id, now)
    IN /\ Becomes(s)
       /\ Observe(s, Lookup(S, node_id), 0)
       /\ last' = [op |-> "report_failure", node_id |-> node_id]
       /\ UNCHANGED <<now, tasks, routed>>

GetNodesStatus ==
    LET r == get_nodes_status(S, now)
    IN /\ Becomes(r.s)
       /\ Observe(r.s, 0, 0)
       /\ last' = [op |-> "get_nodes_status", ret |-> r.ret]
       /\ UNCHANGED <<now, tasks, routed>>

GetStats ==
    LET r == get_stats(S, now)
    IN /\ Becomes(r.s)
       /\ Observe(r.s, 0, 0)
       /\ last' = [op |-> "get_stats", ret |-> r.ret]
       /\ UNCHANGED <<now, tasks, routed>>

RecordFeedback(node_id, success, response_time_ms, request_type) ==
    LET s == record_feedback(S, node_id, success, response_time_ms,
                             request_type, now)
    IN /\ Becomes(s)
       /\ Observe(s, IF success THEN 0 ELSE Lookup(S, node_id),
                     IF success THEN Lookup(S, node_id) ELSE 0)
       /\ last' = [op |-> "record_feedback", node_id |-> node_id,
                   success |-> success,
                   response_time_ms |-> response_time_ms]
       /\ UNCHANGED <<now, tasks, routed>>

----------------------------------------------------------------------------
(* AdaptiveLoadBalancer.execute_with_retry: one coroutine per task.  It runs *)
(* atomically from one await to the next: the call up to `await execute_fn`, *)
(* the return or the exception of execute_fn up to `await asyncio.sleep` or  *)
(* to the end, and the end of the sleep up to the next `await execute_fn`.   *)

IdleTask ==
    [pc |-> "idle", request_type |-> "", priority |-> "", attempt |-> 0,
     node |-> 0, start |-> 0, last_error |-> None, wake_at |-> 0,
     outcome |-> None,
     \* observers: what execute_fn did at each invocation, the delays given to
     \* asyncio.sleep, the feedback log when the call began
     ops |-> <<>>, delays |-> <<>>, log0 |-> <<>>]

\* an exception raised by execute_fn is Exception(msg); str(e) is its message
Exception(msg) == [type |-> "Exception", msg |-> msg]
str(e) == e.msg

\* what execute_with_retry raises
RuntimeError(msg) == [ok |-> FALSE, type |-> "RuntimeError", msg |-> msg]

\* the delay is RETRY_BASE_DELAY whatever the attempt
backoff_delay_constant(attempt) ==
    Min2(RETRY_BASE_DELAY, RETRY_MAX_DELAY)

\* min(RETRY_BASE_DELAY * (2 ** (attempt - 1)), RETRY_MAX_DELAY)
backoff_delay(attempt) ==
    Min2(RETRY_BASE_DELAY * Pow2(attempt - 1), RETRY_MAX_DELAY)

\* a selection that finds no node is treated as a failed attempt: the loop
\* sleeps and tries again while attempts remain
begin_attempt_retries(task, s, attempt, t) ==
    LET r == select_node(s, task.request_type, task.priority, t)
    IN IF ~r.ret.ok /\ attempt < MAX_RETRIES
       THEN [s |-> r.s,
             task |-> [task EXCEPT
                         !.pc = "sleeping",
                         !.attempt = attempt,
                         !.wake_at = t + backoff_delay(attempt),
                         !.delays = Append(@, backoff_delay(attempt))]]
       ELSE IF ~r.ret.ok
       THEN [s |-> r.s,
             task |-> [task EXCEPT
                         !.pc = "raised",
                         !.attempt = attempt,
                         !.outcome = RuntimeError(
                             "Aucun noeud disponible pour "
                                 \o task.request_type)]]
       ELSE [s |-> r.s,
             task |-> [task EXCEPT !.pc = "executing",
                                   !.attempt = attempt,
                                   !.node = r.ret.node,
                                   !.start = t]]

\* the head of the loop body: select_node, then either the RuntimeError
\* "Aucun noeud disponible" or the invocation of execute_fn
begin_attempt(task, s, attempt, t) ==
    LET r == select_node(s, task.request_type, task.priority, t)
    IN IF ~r.ret.ok
       THEN [s |-> r.s,
             task |-> [task EXCEPT
                         !.pc = "raised",
                         !.attempt = attempt,
                         !.outcome = RuntimeError(
                             "Aucun noeud disponible pour "
                                 \o task.request_type)]]
       ELSE [s |-> r.s,
             task |-> [task EXCEPT !.pc = "executing",
                                   !.attempt = attempt,
                                   !.node = r.ret.node,
                                   !.start = t]]

\* the success is reported but the connection is not released
on_return_unreleased(task, s, value, t) ==
    [s |-> report_success(s, s.heap[task.node].node_id, (t - task.start) * 1000),
     task |-> [task EXCEPT !.pc = "returned",
                           !.outcome = [ok |-> TRUE, value |-> value],
                           !.ops = Append(@, [ok |-> TRUE, value |-> value])]]

\* execute_fn returned `value`
on_return(task, s, value, t) ==
    [s |-> record_feedback(s, s.heap[task.node].node_id, TRUE,
                           (t - task.start) * 1000, task.request_type, t),
     task |-> [task EXCEPT !.pc = "returned",
                           !.outcome = [ok |-> TRUE, value |-> value],
                           !.ops = Append(@, [ok |-> TRUE, value |-> value])]]

\* the failure of an attempt that is retried is not recorded before the
\* sleep
on_raise_deferred(task, s, e, t) ==
    LET s1 == record_feedback(s, s.heap[task.node].node_id, FALSE,
                              (t - task.start) * 1000, task.request_type, t)
        seen == [task EXCEPT !.last_error = e,
                             !.ops = Append(@, [ok |-> FALSE, error |-> e])]
    IN IF task.attempt < MAX_RETRIES
       THEN [s |-> s,
             task |-> [seen EXCEPT
                         !.pc = "sleeping",
                         !.wake_at = t + backoff_delay(task.attempt),
                         !.delays = Append(@, backoff_delay(task.attempt))]]
       ELSE [s |-> s1,
             task |-> [seen EXCEPT
                         !.pc = "raised",
                         !.outcome = RuntimeError(
                             "Echec apres " \o ToString(MAX_RETRIES)
                                 \o " tentatives : " \o str(e))]]

\* the loop retries at once: no asyncio.sleep between two attempts
on_raise_no_backoff(task, s, e, t) ==
    LET s1 == record_feedback(s, s.heap[task.node].node_id, FALSE,
                              (t - task.start) * 1000, task.request_type, t)
        seen == [task EXCEPT !.last_error = e,
                             !.ops = Append(@, [ok |-> FALSE, error |-> e])]
    IN IF task.attempt < MAX_RETRIES
       THEN [s |-> s1, task |-> [seen EXCEPT !.pc = "sleeping", !.wake_at = t]]
       ELSE [s |-> s1,
             task |-> [seen EXCEPT
                         !.pc = "raised",
                         !.outcome = RuntimeError(
                             "Echec apres " \o ToString(MAX_RETRIES)
                                 \o " tentatives : " \o str(e))]]

\* one attempt more than MAX_RETRIES: the test is attempt <= MAX_RETRIES
on_raise_one_more(task, s, e, t) ==
    LET s1 == record_feedback(s, s.heap[task.node].node_id, FALSE,
                              (t - task.start) * 1000, task.request_type, t)
        seen == [task EXCEPT !.last_error = e,
                             !.ops = Append(@, [ok |-> FALSE, error |-> e])]
    IN IF task.attempt <= MAX_RETRIES
       THEN [s |-> s1,
             task |-> [seen EXCEPT
                         !.pc = "sleeping",
                         !.wake_at = t + backoff_delay(task.attempt),
                         !.delays = Append(@, backoff_delay(task.attempt))]]
       ELSE [s |-> s1,
             task |-> [seen EXCEPT
                         !.pc = "raised",
                         !.outcome = RuntimeError(
                             "Echec apres " \o ToString(MAX_RETRIES)
                                 \o " tentatives : " \o str(e))]]

\* the first error is retained instead of the last one
on_raise_first_error(task, s, e, t) ==
    LET s1 == record_feedback(s, s.heap[task.node].node_id, FALSE,
                              (t - task.start) * 1000, task.request_type, t)
        first == IF task.last_error = None THEN e ELSE task.last_error
        seen == [task EXCEPT !.last_error = first,
                             !.ops = Append(@, [ok |-> FALSE, error |-> e])]
    IN IF task.attempt < MAX_RETRIES
       THEN [s |-> s1,
             task |-> [seen EXCEPT
                         !.pc = "sleeping",
                         !.wake_at = t + backoff_delay(task.attempt),
                         !.delays = Append(@, backoff_delay(task.attempt))]]
       ELSE [s |-> s1,
             task |-> [seen EXCEPT
                         !.pc = "raised",
                         !.outcome = RuntimeError(
                             "Echec apres " \o ToString(MAX_RETRIES)
                                 \o " tentatives : " \o str(first))]]

\* execute_fn raised `e`
on_raise(task, s, e, t) ==
    LET s1 == record_feedback(s, s.heap[task.node].node_id, FALSE,
                              (t - task.start) * 1000, task.request_type, t)
        seen == [task EXCEPT !.last_error = e,
                             !.ops = Append(@, [ok |-> FALSE, error |-> e])]
    IN IF task.attempt < MAX_RETRIES
       THEN [s |-> s1,
             task |-> [seen EXCEPT
                         !.pc = "sleeping",
                         !.wake_at = t + backoff_delay(task.attempt),
                         !.delays = Append(@, backoff_delay(task.attempt))]]
       ELSE [s |-> s1,
             task |-> [seen EXCEPT
                         !.pc = "raised",
                         !.outcome = RuntimeError(
                             "Echec apres " \o ToString(MAX_RETRIES)
                                 \o " tentatives : " \o str(e))]]

\* a caller awaits execute_with_retry: coroutine p is created and runs up to
\* its first await
ExecCall(p, request_type, priority) ==
    /\ p \notin DOMAIN tasks
    /\ LET r == begin_attempt([IdleTask EXCEPT !.request_type = request_type,
                                               !.priority = priority,
                                               !.log0 = feedback_history],
                              S, 1, now)
       IN /\ Becomes(r.s)
          /\ Observe(r.s, 0, 0)
          /\ tasks' = [q \in DOMAIN tasks \cup {p} |->
                          IF q = p THEN r.task ELSE tasks[q]]
    /\ last' = [op |-> "execute_with_retry", task |-> p]
    /\ UNCHANGED <<now, routed>>

ExecReturn(p, value) ==
    /\ p \in DOMAIN tasks
    /\ tasks[p].pc = "executing"
    /\ LET r == on_return(tasks[p], S, value, now)
       IN /\ Becomes(r.s)
          /\ Observe(r.s, 0, Lookup(S, heap[tasks[p].node].node_id))
          /\ tasks' = [tasks EXCEPT ![p] = r.task]
    /\ last' = [op |-> "execute_fn_returned", task |-> p]
    /\ UNCHANGED <<now, routed>>

ExecRaise(p, e) ==
    /\ p \in DOMAIN tasks
    /\ tasks[p].pc = "executing"
    /\ LET r == on_raise(tasks[p], S, e, now)
       IN /\ Becomes(r.s)
          /\ Observe(r.s, Lookup(S, heap[tasks[p].node].node_id), 0)
          /\ tasks' = [tasks EXCEPT ![p] = r.task]
    /\ last' = [op |-> "execute_fn_raised", task |-> p]
    /\ UNCHANGED <<now, routed>>

ExecWake(p) ==
    /\ p \in DOMAIN tasks
    /\ tasks[p].pc = "sleeping"
    /\ now >= tasks[p].wake_at
    /\ LET r == begin_attempt(tasks[p], S, tasks[p].attempt + 1, now)
       IN /\ Becomes(r.s)
          /\ Observe(r.s, 0, 0)
          /\ tasks' = [tasks EXCEPT ![p] = r.task]
    /\ last' = [op |-> "sleep_done", task |-> p]
    /\ UNCHANGED <<now, routed>>

----------------------------------------------------------------------------
(* The router and the circuit breaker under direct calls *)

MaxTime == 62          \* time stops here
MaxRequests == 6      \* reports made on registered nodes, in total
MaxConnections == 1    \* select_node calls not yet released, per node

NodeIds == {"X", "Y"}          \* registered
UnknownIds == {"Z"}            \* never registered
ReportIds == {"X", "Z"}        \* the ids that reports are made on
TickSteps == {20, 31}
ResponseTimes == {1000}
RouteTypes == {"IMAGE_ANALYSIS"}
RoutePriorities == {"MEDIUM"}

Services == {"minespotai-svc", "api-gateway"}

\* the objects registered as ids[i], of service svc[i], with prof[i] as
\* cpu_usage, memory_usage, active_connections, max_connections
Registered(ids, prof, svc) ==
    [i \in 1..Len(ids) |->
        ServerNode(ids[i], svc[i], prof[i][1], prof[i][2], prof[i][3], prof[i][4])]

\* an engine on which `objs` have just been registered
Engine(objs) ==
    [heap |-> objs, nodes |-> [i \in DOMAIN objs |-> i], route_cache |-> <<>>,
     cache_timestamps |-> <<>>, feedback_history |-> <<>>]

\* the engine is in state s at time 0
InitFrom(s) ==
    /\ now = 0
    /\ heap = s.heap
    /\ nodes = s.nodes
    /\ route_cache = s.route_cache
    /\ cache_timestamps = s.cache_timestamps
    /\ feedback_history = s.feedback_history
    /\ tasks = <<>>
    /\ last = [op |-> "init"]
    /\ routed = <<>>
    /\ hist = [r \in DOMAIN s.heap |->
                 [fails |-> s.heap[r].consecutive_failures,
                  fails_np |-> s.heap[r].consecutive_failures,
                  conn0 |-> s.heap[r].active_connections]]

InitEngine(objs) == InitFrom(Engine(objs))

Init ==
    InitEngine(Registered(<<"X", "Y">>,
                          <<<<10, 10, 0, 100>>, <<90, 90, 50, 100>>>>,
                          <<"minespotai-svc", "minespotai-svc">>))

Next ==
    \/ \E d \in TickSteps : now + d <= MaxTime /\ Tick(d)
    \/ \E rt \in RouteTypes, pr \in RoutePriorities : RouteRequest(rt, pr)
    \/ \E rt \in RouteTypes, pr \in RoutePriorities :
          /\ ConnectionsBelow(MaxConnections)
          /\ SelectNode(rt, pr)
    \/ \E id \in ReportIds, ms \in ResponseTimes :
          TotalRequests < MaxRequests /\ ReportSuccess(id, ms)
    \/ \E id \in ReportIds :
          TotalRequests < MaxRequests /\ ReportFailure(id)
    \/ GetNodesStatus

Spec == Init /\ [][Next]_vars

\* The breaker of one node followed through a long run of reports
MaxBreakerRequests == 11   \* reports made on the node

NextBreaker ==
    \/ \E d \in TickSteps : now + d <= MaxTime /\ Tick(d)
    \/ \E rt \in RouteTypes, pr \in RoutePriorities : RouteRequest(rt, pr)
    \/ \E id \in ReportIds, ms \in ResponseTimes :
          TotalRequests < MaxBreakerRequests /\ ReportSuccess(id, ms)
    \/ \E id \in ReportIds :
          TotalRequests < MaxBreakerRequests /\ ReportFailure(id)
    \/ GetNodesStatus

SpecBreaker == Init /\ [][NextBreaker]_vars

----------------------------------------------------------------------------
(* Claims on the circuit breaker and the router *)

RouteOps == {"route_request", "select_node"}
RegisteredIds == {heap[r].node_id : r \in Range(nodes)}
CheckOps == RouteOps \cup {"get_nodes_status", "get_stats"}

\* the circuit of n is open and its recovery timeout has not elapsed at time t
OpenAt(n, t) ==
    n.status = "CIRCUIT_OPEN" /\ t - n.circuit_opened_at <= CIRCUIT_RECOVERY_TIMEOUT

\* the breaker keeps r closed to routing: a step leaves CIRCUIT_OPEN only after
\* the recovery timeout, and no routing call returns a node whose circuit is
\* open and whose timeout has not elapsed
ExcludedWhileOpen(r) ==
    /\ (heap[r].status = "CIRCUIT_OPEN" /\ heap'[r].status # "CIRCUIT_OPEN")
          => now - heap[r].circuit_opened_at > CIRCUIT_RECOVERY_TIMEOUT
    /\ (last'.op \in RouteOps /\ last'.ret.ok /\ last'.ret.node = r)
          => ~OpenAt(heap[r], now)

\* C1 as stated: for every registered node, the report_failure call that is
\* the 5th in a row since the last report_success leaves the node
\* CIRCUIT_OPEN, and until the recovery timeout has elapsed no route_request
\* (fresh or cached) returns the node.
C1_AsStated ==
    [][\A r \in Range(nodes) :
          /\ (/\ last'.op = "report_failure"
              /\ last'.node_id = heap[r].node_id
              /\ hist'[r].fails = CIRCUIT_FAILURE_THRESHOLD)
                => heap'[r].status = "CIRCUIT_OPEN"
          /\ ExcludedWhileOpen(r)]_vars

\* C1 amended: for every registered node, the report_failure call that is the
\* 5th in a row since the last report_success and the last recovery probe
\* leaves the node CIRCUIT_OPEN, and until the recovery timeout has elapsed
\* no route_request (fresh or cached) returns the node.
C1_CircuitOpensOnThreshold ==
    [][\A r \in Range(nodes) :
          /\ (/\ last'.op = "report_failure"
              /\ last'.node_id = heap[r].node_id
              /\ hist'[r].fails_np = CIRCUIT_FAILURE_THRESHOLD)
                => heap'[r].status = "CIRCUIT_OPEN"
          /\ ExcludedWhileOpen(r)]_vars

\* the 5th failure in a row has opened the circuit of a node that the cache
\* holds, and a routing call made before the timeout returned another node
C1_Witness ==
    \E r \in Range(nodes), k \in DOMAIN routed :
        /\ hist[r].fails_np = CIRCUIT_FAILURE_THRESHOLD
        /\ OpenAt(heap[r], now)
        /\ last.op = "route_request" /\ last.ret.ok /\ last.ret.node # r
        /\ routed[k].prev = r /\ routed[k].node # r

\* an availability check was made on r by the step just taken
Checked(r) ==
    \/ last'.op = "get_nodes_status"
    \/ /\ last'.op \in RouteOps
       /\ service_routing(last'.request_type) # <<>>
       /\ (last'.ret.ok /\ last'.ret.cached) => last'.ret.node = r

\* the fields of a node other than active_connections
Breaker(n) == [n EXCEPT !.active_connections = 0]

\* C2: once the recovery timeout has elapsed, the first availability check on
\* a CIRCUIT_OPEN node (through route_request, select_node, get_nodes_status)
\* makes it DEGRADED with consecutive_failures = 0 and reports it available;
\* under every interleaving of the callers the transition is taken only from
\* CIRCUIT_OPEN after the timeout, so at most once per recovery window, and an
\* availability check on any other node changes none of its counters.
C2_ProbeFiresOnce ==
    [][\A r \in Range(nodes) :
          /\ (last'.op \in CheckOps /\ Checked(r))
               => IF heap[r].status = "CIRCUIT_OPEN" /\ ~OpenAt(heap[r], now)
                  THEN /\ Breaker(heap'[r]) =
                            Breaker([heap[r] EXCEPT !.status = "DEGRADED",
                                                    !.consecutive_failures = 0])
                       /\ last'.op = "get_nodes_status"
                            => \A i \in DOMAIN nodes :
                                  nodes[i] = r => last'.ret[i].is_available
                       /\ r \in AvailableAt(S', now)
                  ELSE Breaker(heap'[r]) = Breaker(heap[r])
          /\ last'.op \in CheckOps /\ ~Checked(r) => heap'[r] = heap[r]
          /\ (heap[r].status # "DEGRADED" /\ heap'[r].status = "DEGRADED")
               => /\ last'.op \in CheckOps
                  /\ heap[r].status = "CIRCUIT_OPEN"
                  /\ ~OpenAt(heap[r], now)
                  /\ hist'[r].fails_np = 0
          /\ last'.op = "report_failure" /\ last'.node_id = heap[r].node_id
               => heap'[r].consecutive_failures = heap[r].consecutive_failures + 1]_vars

\* a node was probed, failed once more, and was then checked again: the
\* failure is still counted
C2_Witness ==
    \E r \in Range(nodes) :
        /\ heap[r].status = "DEGRADED"
        /\ heap[r].consecutive_failures = 1
        /\ heap[r].error_count = CIRCUIT_FAILURE_THRESHOLD + 1
        /\ last.op \in CheckOps

\* C5: report_success and report_failure with a node_id that is not in the
\* registry change no node record, no cache entry, no counter and no log.
C5_UnknownNodeFeedbackNoOp ==
    [][(last'.op \in {"report_success", "report_failure"}
          /\ last'.node_id \notin RegisteredIds)
        => S' = S]_vars

\* a report on an unknown node was made while the engine held nodes, a cached
\* route and counted failures
C5_Witness ==
    /\ last.op \in {"report_success", "report_failure"}
    /\ last.node_id \notin RegisteredIds
    /\ DOMAIN route_cache # {}
    /\ \E r \in Range(nodes) : heap[r].error_count > 0

\* C8: when the route cache holds node X for a key, X has then received 5
\* failures in a row, and another node of the pool is available, the next
\* route_request for the key within the cache TTL returns not X but an
\* available node of the pool, with cached = false, and the cache entry is
\* replaced.
C8_Failover ==
    [][\A key \in DOMAIN route_cache :
          LET x == route_cache[key].node
              pool == Range(service_routing(route_cache[key].request_type))
              others == {r \in AvailableAt(S, now) \ {x} :
                            heap[r].service_name \in pool}
          IN (/\ last'.op = "route_request"
              /\ cache_key(last'.request_type, last'.priority) = key
              /\ now - cache_timestamps[key] < cache_ttl
              /\ hist[x].fails >= CIRCUIT_FAILURE_THRESHOLD
              /\ heap[x].status = "CIRCUIT_OPEN"
              /\ heap[x].circuit_opened_at >= cache_timestamps[key]
              /\ others # {})
             => /\ last'.ret.ok
                /\ last'.ret.node \in others
                /\ ~last'.ret.cached
                /\ route_cache'[key] = last'.ret
                /\ cache_timestamps'[key] = now]_vars

\* X was returned, then failed 5 times in a row, and the next call for the
\* key, within the TTL of the entry that held X, returned Y uncached
C8_Witness ==
    \E key \in DOMAIN routed :
        /\ last.op = "route_request"
        /\ cache_key(last.request_type, last.priority) = key
        /\ routed[key].prev # 0
        /\ hist[routed[key].prev].fails = CIRCUIT_FAILURE_THRESHOLD
        /\ heap[routed[key].prev].status = "CIRCUIT_OPEN"
        /\ last.ret.ok /\ last.ret.node # routed[key].prev /\ ~last.ret.cached
        /\ now - heap[routed[key].prev].circuit_opened_at < cache_ttl

----------------------------------------------------------------------------
(* Node selection and the route cache: nodes of several loads and pools,    *)
(* some registered long enough ago to have failed 5 times already           *)

MaxRouteTime == 61     \* time stops here
MaxRouteConnections == 1

RouteTickSteps == {20, 30, 31}
SelectionTypes == {"IMAGE_ANALYSIS", "GEO_SPATIAL"}
SelectionProfiles ==
    {<<<<10, 10, 0, 100>>, <<90, 90, 50, 100>>>>,
     <<<<10, 10, 0, 100>>, <<10, 10, 0, 100>>>>,
     <<<<90, 90, 50, 100>>, <<10, 11, 0, 0>>>>}

\* report_failure called k times on node_id at time t
RECURSIVE Failed(_, _, _, _)
Failed(s, node_id, k, t) ==
    IF k = 0 THEN s ELSE Failed(report_failure(s, node_id, t), node_id, k - 1, t)

InitRoute ==
    \E prof \in SelectionProfiles, sy \in Services, open \in SUBSET {"X"} :
        LET s0 == Engine(Registered(<<"X", "Y">>, prof,
                                    <<"minespotai-svc", sy>>))
        IN InitFrom(IF "X" \in open
                    THEN Failed(s0, "X", CIRCUIT_FAILURE_THRESHOLD, 0) ELSE s0)

NextRoute ==
    \/ \E d \in RouteTickSteps : now + d <= MaxRouteTime /\ Tick(d)
    \/ \E rt \in SelectionTypes, pr \in RoutePriorities : RouteRequest(rt, pr)
    \/ \E rt \in SelectionTypes, pr \in RoutePriorities :
          /\ ConnectionsBelow(MaxRouteConnections)
          /\ SelectNode(rt, pr)
    \/ \E id \in NodeIds \cup UnknownIds :
          ReleasesBelow(id, MaxRouteConnections) /\ ReleaseNode(id)

SpecRoute == InitRoute /\ [][NextRoute]_vars

\* the registered nodes that route_request may select for a request type
Candidates(request_type) ==
    {r \in Range(nodes) :
        /\ is_available(heap[r], now).ret
        /\ heap[r].service_name \in Range(service_routing(request_type))}

\* C4 as stated: two route_request calls with the same (request_type,
\* priority) made within the cache TTL of each other, with the same nodes
\* available at both, return the same node, the second with cached = true,
\* whatever select_node and release_node did to the load scores in between.
C4_AsStated ==
    [][\A key \in DOMAIN routed :
          (/\ last'.op \in RouteOps
           /\ cache_key(last'.request_type, last'.priority) = key
           /\ routed[key].node # 0
           /\ now - routed[key].t < cache_ttl
           /\ AvailableAt(S, now) = routed[key].avail)
          => /\ last'.ret.ok
             /\ last'.ret.node = routed[key].node
             /\ last'.ret.cached]_vars

\* C4 amended: two route_request calls with the same (request_type,
\* priority), the second made within the cache TTL of the last call for the
\* key that was not served from the cache, with the same nodes available at
\* both, return the same node, the second with cached = true, whatever
\* select_node and release_node did to the load scores in between.
C4_CacheStability ==
    [][\A key \in DOMAIN routed :
          (/\ last'.op \in RouteOps
           /\ cache_key(last'.request_type, last'.priority) = key
           /\ routed[key].node # 0
           /\ now - routed[key].fresh < cache_ttl
           /\ AvailableAt(S, now) = routed[key].avail)
          => /\ last'.ret.ok
             /\ last'.ret.node = routed[key].node
             /\ last'.ret.cached]_vars

\* a second call was served from the cache although a select_node in between
\* left another candidate with a strictly lower load score
C4_Witness ==
    /\ last.op = "route_request" /\ last.ret.ok /\ last.ret.cached
    /\ routed[cache_key(last.request_type, last.priority)].prev = last.ret.node
    /\ \E r \in Candidates(last.request_type) :
          ScoreLess(load_score(heap[r]), load_score(heap[last.ret.node]))

\* C7: a route_request that succeeds without being served from the cache
\* returns an available registered node of the pool of the request type whose
\* load score is minimal among those nodes; with X at cpu 10, mem 10, 0/100
\* connections and Y at cpu 90, mem 90, 50/100 in the same pool it returns X.
C7_MinimumLoad ==
    (last.op = "route_request" /\ last.ret.ok /\ ~last.ret.cached)
    => /\ last.ret.node \in Candidates(last.request_type)
       /\ \A r \in Candidates(last.request_type) :
             ScoreLeq(load_score(heap[last.ret.node]), load_score(heap[r]))
       /\ \A x, y \in Candidates(last.request_type) :
             (/\ heap[x].cpu_usage = 10 /\ heap[x].memory_usage = 10
              /\ heap[x].active_connections = 0 /\ heap[x].max_connections = 100
              /\ heap[y].cpu_usage = 90 /\ heap[y].memory_usage = 90
              /\ heap[y].active_connections = 50 /\ heap[y].max_connections = 100
              /\ Candidates(last.request_type) = {x, y})
             => last.ret.node = x

\* Scenario A
C7_Witness ==
    /\ last.op = "route_request" /\ last.ret.ok /\ ~last.ret.cached
    /\ Candidates(last.request_type) = {1, 2}
    /\ heap[1].cpu_usage = 10 /\ heap[1].active_connections = 0
    /\ heap[2].cpu_usage = 90 /\ heap[2].active_connections = 50
    /\ last.ret.node = 1

----------------------------------------------------------------------------
(* The adaptive weights: feedbacks recorded on X, registered with Y         *)

MaxFeedback == 10      \* feedbacks recorded

FeedbackIds == {"X"}
FeedbackTimes == {0, 6000}

NextWeights ==
    \E id \in FeedbackIds, success \in BOOLEAN, ms \in FeedbackTimes :
        /\ Len(feedback_history) < MaxFeedback
        /\ success \/ ms = 0
        /\ RecordFeedback(id, success, ms, "IMAGE_ANALYSIS")

SpecWeights == Init /\ [][NextWeights]_vars

----------------------------------------------------------------------------
(* The feedback log near its limit: the engine of Init after n feedbacks    *)
(* recorded at time 0 on the unregistered id Z, the i-th of them a failure  *)
(* of response time i, which change nothing but the log                     *)

MaxLogAppends == 3     \* the log starts this close to its limit, at most,
                       \* and grows at most this far after a trim

LogIds == {"X"}

\* the log after n calls record_feedback("Z", False, i, IMAGE_ANALYSIS)
Logged(n) ==
    [i \in 1..n |-> [node_id |-> "Z", success |-> FALSE,
                     response_time_ms |-> i,
                     request_type |-> "IMAGE_ANALYSIS", timestamp |-> 0]]

InitLog ==
    \E n \in (HISTORY_LIMIT - MaxLogAppends)..HISTORY_LIMIT :
        LET s0 == Engine(Registered(<<"X", "Y">>,
                                    <<<<10, 10, 0, 100>>, <<90, 90, 50, 100>>>>,
                                    <<"minespotai-svc", "minespotai-svc">>))
        IN InitFrom([s0 EXCEPT !.feedback_history = Logged(n)])

NextLog ==
    \E id \in LogIds, success \in BOOLEAN :
        /\ \/ Len(feedback_history) >= HISTORY_LIMIT - MaxLogAppends
           \/ Len(feedback_history) < HISTORY_KEEP + MaxLogAppends
        /\ RecordFeedback(id, success, 0, "IMAGE_ANALYSIS")

SpecLog == InitLog /\ [][NextLog]_vars

\* C6: after a record_feedback the log holds at most 10,000 records and ends
\* with the record of that call; the call made on a log of 10,000 records
\* leaves exactly 5,000 of them: the last 4,999 records of the log as it
\* was, in their order, followed by the record of the call.
C6_LogEviction ==
    [][last'.op = "record_feedback" =>
          LET h == feedback_history
              h1 == feedback_history'
              rec == h1[Len(h1)]
          IN /\ Len(h1) <= HISTORY_LIMIT
             /\ rec.node_id = last'.node_id /\ rec.success = last'.success
             /\ Len(h) < HISTORY_LIMIT => h1 = Append(h, rec)
             /\ Len(h) = HISTORY_LIMIT =>
                   /\ Len(h1) = 5000
                   /\ \A i \in 1..4999 : h1[i] = h[Len(h) - 4999 + i]]_vars

\* the call has just trimmed the log, whose oldest record is now the 5,002nd
\* ever recorded
C6_Witness ==
    /\ last.op = "record_feedback"
    /\ Len(feedback_history) = 5000
    /\ feedback_history[1].response_time_ms = 5002
    /\ feedback_history[5000].node_id = "X"

----------------------------------------------------------------------------
(* execute_with_retry: one call, on X alone in its pool or on X and Y, while *)
(* time passes and other callers report failures on X                        *)

MaxRetryTime == 4      \* time stops here
MaxRetryErrors == 5    \* failures of X, reported or recorded, after which
                       \* no other caller reports one

RetryTasks == {1}
Results == {"done"}
Errors == {Exception("timeout"), Exception("refused")}

InitRetry ==
    \E sy \in Services :
        InitEngine(Registered(<<"X", "Y">>,
                              <<<<10, 10, 0, 100>>, <<90, 90, 50, 100>>>>,
                              <<"minespotai-svc", sy>>))

NextRetry ==
    \/ now < MaxRetryTime /\ Tick(1)
    \/ heap[1].error_count < MaxRetryErrors /\ ReportFailure("X")
    \/ \E p \in RetryTasks : ExecCall(p, "IMAGE_ANALYSIS", "MEDIUM")
    \/ \E p \in RetryTasks, value \in Results : ExecReturn(p, value)
    \/ \E p \in RetryTasks, e \in Errors : ExecRaise(p, e)
    \/ \E p \in RetryTasks : ExecWake(p)

SpecRetry == InitRetry /\ [][NextRetry]_vars

\* the pool of the request type holds a single registered node
SingleNodePool(request_type) ==
    Cardinality({r \in Range(nodes) :
        heap[r].service_name \in Range(service_routing(request_type))}) = 1

\* whether each invocation of the operation returned
Returned(ops) == [i \in DOMAIN ops |-> ops[i].ok]

\* whether each record of a log is a success
Successes(h) == [i \in DOMAIN h |-> h[i].success]

\* the records appended to the log since the call of task p began
Appended(p) ==
    SubSeq(feedback_history, Len(tasks[p].log0) + 1, Len(feedback_history))

\* C9: a call of execute_with_retry whose operation raised at the first and
\* second invocations and returned at the third returns what the operation
\* returned, has slept exactly twice, 1 s then 2 s, and has appended exactly
\* three records to the feedback log: failure, failure, success.
C9_RetryThenSuccess ==
    \A p \in DOMAIN tasks :
        (/\ tasks[p].pc \in {"returned", "raised"}
         /\ Returned(tasks[p].ops) = <<FALSE, FALSE, TRUE>>)
        => /\ tasks[p].pc = "returned"
           /\ tasks[p].outcome = [ok |-> TRUE, value |-> tasks[p].ops[3].value]
           /\ tasks[p].delays = <<1, 2>>
           /\ Successes(Appended(p)) = <<FALSE, FALSE, TRUE>>
           /\ SubSeq(feedback_history, 1, Len(tasks[p].log0)) = tasks[p].log0

\* Scenario C: the call has returned after two failures and a success
C9_Witness ==
    /\ 1 \in DOMAIN tasks
    /\ tasks[1].pc = "returned"
    /\ Len(tasks[1].ops) = 3
    /\ tasks[1].outcome.value = "done"
    /\ now >= 3

\* the operation of task p raised at every invocation, if any, and the call
\* is over
AlwaysFailed(p) ==
    /\ tasks[p].pc \in {"returned", "raised"}
    /\ \A i \in DOMAIN tasks[p].ops : ~tasks[p].ops[i].ok

\* what C10 says of task p: three invocations, then the error of exhausted
\* retries with the error of the last invocation, and exactly three records
\* appended to the feedback log, all failures
Exhausted(p) ==
    /\ Len(tasks[p].ops) = MAX_RETRIES
    /\ tasks[p].pc = "raised"
    /\ tasks[p].outcome =
          RuntimeError("Echec apres 3 tentatives : "
                          \o str(tasks[p].ops[MAX_RETRIES].error))
    /\ Successes(Appended(p)) = <<FALSE, FALSE, FALSE>>

\* C10 as stated: a call of execute_with_retry whose operation always raises,
\* on a pool of a single node, invokes the operation 3 times, then raises the
\* error of exhausted retries with the error of the last invocation, having
\* appended exactly 3 failure records.
C10_AsStated ==
    \A p \in DOMAIN tasks :
        (AlwaysFailed(p) /\ SingleNodePool(tasks[p].request_type))
        => Exhausted(p)

\* C10 amended: the same, for a call that finds the node available at each
\* of its selections, that is, which does not raise "Aucun noeud disponible"
\* because the circuit of the node is open before the call or opens during it.
C10_RetriesExhausted ==
    \A p \in DOMAIN tasks :
        (/\ AlwaysFailed(p) /\ SingleNodePool(tasks[p].request_type)
         /\ tasks[p].outcome #
               RuntimeError("Aucun noeud disponible pour "
                               \o tasks[p].request_type))
        => Exhausted(p)

\* Scenario D: three invocations raised, the last with another error than
\* the first, and the call has raised
C10_Witness ==
    /\ 1 \in DOMAIN tasks
    /\ SingleNodePool(tasks[1].request_type)
    /\ tasks[1].pc = "raised"
    /\ Len(tasks[1].ops) = 3
    /\ tasks[1].ops[1].error # tasks[1].ops[3].error

\* the error raised to the caller of task p is one of the two messages of
\* execute_with_retry followed by the text of e
Carries(p, e) ==
    /\ tasks[p].pc = "raised"
    /\ \E prefix \in {"Echec apres 3 tentatives : ",
                      "Aucun noeud disponible pour "} :
          tasks[p].outcome = RuntimeError(prefix \o str(e))

\* C11: a call of execute_with_retry that is over has either returned what
\* the operation returned or raised one error; if the operation raised at
\* any invocation during the call, the error raised to the caller carries the
\* error of the last invocation that raised, also when a later attempt found
\* no available node.
C11_NoErrorDropped ==
    \A p \in DOMAIN tasks :
        LET ops == tasks[p].ops
        IN /\ tasks[p].pc = "returned" =>
                 /\ ops # <<>> /\ ops[Len(ops)].ok
                 /\ tasks[p].outcome = [ok |-> TRUE, value |-> ops[Len(ops)].value]
           /\ (tasks[p].pc = "raised" /\ ops # <<>>) =>
                 /\ ~ops[Len(ops)].ok
                 /\ Carries(p, ops[Len(ops)].error)

\* what task p has done so far: the invocations of the operation and the
\* delays slept (nothing before the call)
Invoked(p) == IF p \in DOMAIN tasks THEN tasks[p].ops ELSE <<>>
Slept(p) == IF p \in DOMAIN tasks THEN tasks[p].delays ELSE <<>>

\* C12: when execute_with_retry selects a node, at its first attempt or after
\* a backoff, and no node of the pool is available, the call raises "Aucun
\* noeud disponible" at once: that step invokes no operation, appends no
\* feedback record, takes no delay and changes no active_connections; and a
\* call that has raised does nothing more.
C12_NoAvailableNodeAborts ==
    [][\A p \in DOMAIN tasks' :
          /\ (/\ last'.op \in {"execute_with_retry", "sleep_done"}
              /\ last'.task = p
              /\ Candidates(tasks'[p].request_type) = {})
             => /\ tasks'[p].pc = "raised"
                /\ tasks'[p].outcome =
                      RuntimeError("Aucun noeud disponible pour "
                                      \o tasks'[p].request_type)
                /\ tasks'[p].ops = Invoked(p)
                /\ tasks'[p].delays = Slept(p)
                /\ feedback_history' = feedback_history
                /\ \A r \in DOMAIN heap :
                      heap'[r].active_connections = heap[r].active_connections
          /\ (p \in DOMAIN tasks /\ tasks[p].pc = "raised")
             => tasks'[p] = tasks[p]]_vars

\* the circuit of the only node opened during the retry sequence: the call
\* raised "Aucun noeud disponible" after the operation had been invoked
C12_Witness ==
    /\ 1 \in DOMAIN tasks
    /\ last = [op |-> "sleep_done", task |-> 1]
    /\ tasks[1].pc = "raised"
    /\ tasks[1].ops # <<>>
    /\ tasks[1].outcome =
          RuntimeError("Aucun noeud disponible pour IMAGE_ANALYSIS")

----------------------------------------------------------------------------
(* The failures of route_request: a pool with nodes (IMAGE_ANALYSIS), a pool *)
(* without nodes (DATABASE_QUERY) and a request type that _service_routing   *)
(* has no entry for, while failures are reported on X and Y                  *)

MaxTaxonomyTime == 62      \* time stops here
MaxTaxonomyErrors == 5     \* failures reported on each node

TaxonomyTypes == {"IMAGE_ANALYSIS", "DATABASE_QUERY", "TELEMETRY"}
TaxonomyTickSteps == {31}

NextTaxonomy ==
    \/ \E d \in TaxonomyTickSteps : now + d <= MaxTaxonomyTime /\ Tick(d)
    \/ \E rt \in TaxonomyTypes, pr \in RoutePriorities : RouteRequest(rt, pr)
    \/ \E id \in NodeIds :
          /\ heap[Lookup(S, id)].error_count < MaxTaxonomyErrors
          /\ ReportFailure(id)

SpecTaxonomy == Init /\ [][NextTaxonomy]_vars

\* route_request has just failed
RouteFailed(l) == l.op = "route_request" /\ ~l.ret.ok

\* why: the request type has no pool, or its pool has no available node
NoCompatibleService(l) == service_routing(l.request_type) = <<>>

----------------------------------------------------------------------------
(* Connection accounting: select_node, release_node and record_feedback     *)
(* called in any order, next to one call of execute_with_retry               *)

MaxConnTime == 1           \* time stops here
MaxConnSelected == 1       \* select_node calls not yet released, per node
MaxConnFeedback == 1       \* record_feedback calls made by other callers

ConnIds == {"X", "Z"}

NextConnections ==
    \/ now < MaxConnTime /\ Tick(1)
    \/ \E rt \in RouteTypes, pr \in RoutePriorities :
          /\ ConnectionsBelow(MaxConnSelected)
          /\ SelectNode(rt, pr)
    \/ \E id \in ConnIds : ReleaseNode(id)
    \/ \E id \in ConnIds, success \in BOOLEAN :
          /\ tasks = <<>>
          /\ Len(feedback_history) < MaxConnFeedback
          /\ RecordFeedback(id, success, 0, "IMAGE_ANALYSIS")
    \/ \E p \in RetryTasks : ExecCall(p, "IMAGE_ANALYSIS", "MEDIUM")
    \/ \E p \in RetryTasks, value \in Results : ExecReturn(p, value)
    \/ \E p \in RetryTasks : ExecRaise(p, Exception("timeout"))
    \/ \E p \in RetryTasks : ExecWake(p)

SpecConnections == Init /\ [][NextConnections]_vars

\* C14: active_connections of every node is at least 0 after every step,
\* whatever the order of select_node, release_node, record_feedback and the
\* steps of execute_with_retry; release_node on a registered node takes one
\* from its active_connections, or leaves 0 at 0, and changes nothing else;
\* on an unregistered id it changes nothing.
C14_ConnectionsNeverNegative ==
    [][/\ \A r \in DOMAIN heap' : heap'[r].active_connections >= 0
       /\ last'.op = "release_node" =>
             LET ref == Lookup(S, last'.node_id)
                 c == heap[ref].active_connections
             IN IF ref = 0 THEN S' = S
                ELSE S' = [S EXCEPT !.heap[ref].active_connections =
                                       IF c = 0 THEN 0 ELSE c - 1]]_vars

\* a failure has been recorded on X, which no select_node had been made on:
\* its active_connections, 0 at registration, is still 0
C14_Witness ==
    /\ last.op = "record_feedback" /\ last.node_id = "X"
    /\ tasks = <<>>
    /\ heap[1].request_count = 1
    /\ route_cache = <<>>
    /\ heap[1].active_connections = 0

----------------------------------------------------------------------------
(* The counters of a node *)

\* C15: error_count <= request_count for every node, registered with both
\* at 0, after any report_success and report_failure calls.
C15_ErrorsWithinRequests ==
    \A r \in DOMAIN heap : heap[r].error_count <= heap[r].request_count

\* failures and successes have been reported on X
C15_Witness ==
    /\ last.op = "report_failure" /\ last.node_id = "X"
    /\ heap[1].error_count >= 2
    /\ heap[1].request_count > heap[1].error_count

----------------------------------------------------------------------------
(* The counters and the status of X under reports made directly and through *)
(* record_feedback, route_request and get_nodes_status, before and after the *)
(* recovery timeout                                                          *)

MaxCounterTime == 61       \* time stops here
MaxCounterRequests == 6    \* reports and feedbacks on X

CounterTickSteps == {61}
CounterIds == {"X"}

NextCounters ==
    \/ \E d \in CounterTickSteps : now + d <= MaxCounterTime /\ Tick(d)
    \/ \E rt \in RouteTypes, pr \in RoutePriorities : RouteRequest(rt, pr)
    \/ GetNodesStatus
    \/ GetStats
    \/ \E id \in CounterIds, ms \in ResponseTimes :
          TotalRequests < MaxCounterRequests /\ ReportSuccess(id, ms)
    \/ \E id \in CounterIds :
          TotalRequests < MaxCounterRequests /\ ReportFailure(id)
    \/ \E id \in CounterIds, success \in BOOLEAN, ms \in ResponseTimes :
          /\ TotalRequests < MaxCounterRequests
          /\ RecordFeedback(id, success, ms, "IMAGE_ANALYSIS")

SpecCounters == Init /\ [][NextCounters]_vars

\* the last step reported a success, or a failure, on object r, directly or
\* through record_feedback
SucceededOn(r) ==
    /\ \/ last'.op = "report_success"
       \/ last'.op = "record_feedback" /\ last'.success
    /\ Lookup(S, last'.node_id) = r

FailedOn(r) ==
    /\ \/ last'.op = "report_failure"
       \/ last'.op = "record_feedback" /\ ~last'.success
    /\ Lookup(S, last'.node_id) = r

\* C16: no step decreases request_count or error_count of a node: a success
\* reported on it adds 1 to request_count and leaves error_count, a failure
\* adds 1 to both, and every other step (route_request, get_nodes_status, the
\* recovery they trigger, the passing of time) leaves both.
C16_CountersNeverReset ==
    [][\A r \in DOMAIN heap :
          LET n == heap[r]
              n1 == heap'[r]
          IN /\ n1.request_count >= n.request_count
             /\ n1.error_count >= n.error_count
             /\ SucceededOn(r) =>
                   /\ n1.request_count = n.request_count + 1
                   /\ n1.error_count = n.error_count
             /\ FailedOn(r) =>
                   /\ n1.request_count = n.request_count + 1
                   /\ n1.error_count = n.error_count + 1
             /\ (~SucceededOn(r) /\ ~FailedOn(r)) =>
                   /\ n1.request_count = n.request_count
                   /\ n1.error_count = n.error_count]_vars

\* route_request has just made X recover, and X still has its 6 requests
\* and 5 errors
C16_Witness ==
    /\ last.op = "route_request"
    /\ heap[1].status = "DEGRADED"
    /\ heap[1].consecutive_failures = 0
    /\ heap[1].request_count = 6
    /\ heap[1].error_count = 5

\* C17: the status of a node becomes CIRCUIT_OPEN only by a failure reported
\* on it that brings consecutive_failures to 5 or more, the failures since
\* its last success or recovery being at least 5; it stops being CIRCUIT_OPEN
\* only by an availability check made more than 60 s after the circuit opened,
\* which makes it DEGRADED.
C17_OpenOnlyAfterThreshold ==
    [][\A r \in DOMAIN heap :
          /\ (heap[r].status # "CIRCUIT_OPEN" /\ heap'[r].status = "CIRCUIT_OPEN")
             => /\ FailedOn(r)
                /\ heap'[r].consecutive_failures >= CIRCUIT_FAILURE_THRESHOLD
                /\ hist'[r].fails_np >= CIRCUIT_FAILURE_THRESHOLD
          /\ (heap[r].status = "CIRCUIT_OPEN" /\ heap'[r].status # "CIRCUIT_OPEN")
             => /\ last'.op \in CheckOps
                /\ now - heap[r].circuit_opened_at > CIRCUIT_RECOVERY_TIMEOUT
                /\ heap'[r].status = "DEGRADED"]_vars

\* a success was reported on X while its circuit was open, and the circuit
\* is still open
C17_Witness ==
    /\ last.op \in {"report_success", "record_feedback"}
    /\ last.node_id = "X"
    /\ heap[1].status = "CIRCUIT_OPEN"
    /\ heap[1].consecutive_failures = 0
    /\ heap[1].request_count = 6

\* C18: the status of every node, registered HEALTHY, is HEALTHY, DEGRADED or
\* CIRCUIT_OPEN, never UNHEALTHY.
C18_NeverUnhealthy ==
    \A r \in DOMAIN heap :
        /\ heap[r].status \in NodeStatus
        /\ heap[r].status # "UNHEALTHY"

\* X went through CIRCUIT_OPEN and DEGRADED and a success has made it
\* HEALTHY again
C18_Witness ==
    /\ last.op \in {"report_success", "record_feedback"}
    /\ heap[1].status = "HEALTHY"
    /\ heap[1].error_count >= CIRCUIT_FAILURE_THRESHOLD
    /\ now > CIRCUIT_RECOVERY_TIMEOUT

\* C19: get_nodes_status, and get_stats which calls it, change nothing of
\* the engine: no status, no consecutive_failures, no other field, also when
\* a node is CIRCUIT_OPEN and its recovery timeout has elapsed.
C19_ReadOnlySnapshot ==
    [][last'.op \in {"get_nodes_status", "get_stats"} => S' = S]_vars

----------------------------------------------------------------------------
(* The result of route_request under every priority, known or not, fresh,   *)
(* served from the cache and recomputed after the TTL                       *)

MaxTimeoutTime == 40       \* time stops here

TimeoutTickSteps == {20}
Priorities == {"CRITICAL", "HIGH", "MEDIUM", "LOW", "URGENT"}

NextTimeouts ==
    \/ \E d \in TimeoutTickSteps : now + d <= MaxTimeoutTime /\ Tick(d)
    \/ \E rt \in RouteTypes, pr \in Priorities : RouteRequest(rt, pr)

SpecTimeouts == Init /\ [][NextTimeouts]_vars

\* C20: the result of a successful route_request, fresh or served from the
\* cache, has the priority and the request type of the call and the timeout
\* of that priority: 5 for CRITICAL, 10 for HIGH, 30 for MEDIUM, 60 for LOW,
\* 30 for any other.
C20_PriorityTimeouts ==
    (last.op = "route_request" /\ last.ret.ok)
    => /\ last.ret.priority = last.priority
       /\ last.ret.request_type = last.request_type
       /\ last.ret.timeout = CASE last.priority = "CRITICAL" -> 5
                               [] last.priority = "HIGH" -> 10
                               [] last.priority = "MEDIUM" -> 30
                               [] last.priority = "LOW" -> 60
                               [] OTHER -> 30

\* a call of unknown priority was served from the cache while the cache also
\* held the results of the four known priorities
C20_Witness ==
    /\ last.op = "route_request" /\ last.ret.ok /\ last.ret.cached
    /\ last.priority = "URGENT"
    /\ last.ret.timeout = 30
    /\ Cardinality(DOMAIN route_cache) = 5

----------------------------------------------------------------------------
(* Adaptive selection: X and Y of the same pool and the same load, with      *)
(* feedback recorded on either before nodes are selected                     *)

MaxAdaptiveFeedback == 3   \* feedbacks recorded
MaxAdaptiveSelected == 1   \* select_node calls not yet released, per node

InitAdaptive ==
    InitEngine(Registered(<<"X", "Y">>,
                          <<<<10, 10, 0, 100>>, <<10, 10, 0, 100>>>>,
                          <<"minespotai-svc", "minespotai-svc">>))

NextAdaptive ==
    \/ \E id \in NodeIds, success \in BOOLEAN, ms \in ResponseTimes :
          /\ Len(feedback_history) < MaxAdaptiveFeedback
          /\ RecordFeedback(id, success, ms, "IMAGE_ANALYSIS")
    \/ \E rt \in RouteTypes, pr \in Priorities :
          /\ ConnectionsBelow(MaxAdaptiveSelected)
          /\ SelectNode(rt, pr)

SpecAdaptive == InitAdaptive /\ [][NextAdaptive]_vars

\* C21: the weight learned from feedback takes part in the choice made by
\* select_node: at least, of the candidates whose load score equals that of
\* the node selected, none has a greater weight than the node selected.
C21_WeightTakesPart ==
    (last.op = "select_node" /\ last.ret.ok /\ ~last.ret.cached)
    => \A r \in Candidates(last.request_type) :
          LET sel == [heap[last.ret.node] EXCEPT !.active_connections = @ - 1]
          IN (/\ ~ScoreLess(load_score(heap[r]), load_score(sel))
              /\ ~ScoreLess(load_score(sel), load_score(heap[r])))
             => heap[r].weight <= sel.weight

----------------------------------------------------------------------------
(* The moving average of the response time                                    *)

\* the successes reported on a node so far
Observations(n) == n.request_count - n.error_count

\* C22: the first success reported on a node, its average still at the
\* initial 0, sets avg_response_time_ms to the response time observed; every
\* later success sets it to 0.3 * response time + 0.7 * the previous average;
\* a failure leaves it.
C22_FirstObservationSeeds ==
    [][\A r \in DOMAIN heap :
          LET n == heap[r]
              n1 == heap'[r]
          IN /\ SucceededOn(r) =>
                   n1.avg_response_time_ms =
                      IF Observations(n) = 0 /\ n.avg_response_time_ms = 0
                      THEN last'.response_time_ms * AvgScale
                      ELSE ema(n.avg_response_time_ms, last'.response_time_ms)
             /\ FailedOn(r) =>
                   n1.avg_response_time_ms = n.avg_response_time_ms]_vars

----------------------------------------------------------------------------
(* The registry: nodes registered, replaced and removed while the engine runs *)

RegisterNode(obj) ==
    LET s == register_node(S, obj)
    IN /\ Becomes(s)
       /\ Observe(s, 0, 0)
       /\ last' = [op |-> "register_node", node_id |-> obj.node_id, node |-> obj]
       /\ UNCHANGED <<now, tasks, routed>>

UnregisterNode(node_id) ==
    LET s == unregister_node(S, node_id)
    IN /\ Becomes(s)
       /\ Observe(s, 0, 0)
       /\ last' = [op |-> "unregister_node", node_id |-> node_id]
       /\ UNCHANGED <<now, tasks, routed>>

MaxRegistered == 4         \* ServerNode objects constructed
MaxRegistryRequests == 1   \* reports made

RegistryIds == {"X", "Z"}  \* registered or removed while the engine runs
RegistryProfiles == {<<50, 50, 5, 100>>}

NextRegistry ==
    \/ \E id \in RegistryIds, prof \in RegistryProfiles :
          /\ Len(heap) < MaxRegistered
          /\ RegisterNode(ServerNode(id, "minespotai-svc",
                                     prof[1], prof[2], prof[3], prof[4]))
    \/ \E id \in RegistryIds : UnregisterNode(id)
    \/ \E id \in NodeIds, ms \in ResponseTimes :
          TotalRequests < MaxRegistryRequests /\ ReportSuccess(id, ms)
    \/ \E id \in NodeIds :
          TotalRequests < MaxRegistryRequests /\ ReportFailure(id)
    \/ \E rt \in RouteTypes, pr \in RoutePriorities : RouteRequest(rt, pr)

SpecRegistry == Init /\ [][NextRegistry]_vars

\* the registry of engine state s: the object each registered id maps to
Registry(s) ==
    [id \in {s.heap[r].node_id : r \in Range(s.nodes)} |-> Lookup(s, id)]

\* C23: register_node(n) adds or replaces the registry entry of n.node_id and
\* no other, unregister_node(id) removes the entry of id and no other and does
\* nothing when id is not registered; in both, every other id keeps its node
\* object and that object keeps every field.
C23_RegistryFrame ==
    [][LET reg == Registry(S)
           reg1 == Registry(S')
           id == last'.node_id
       IN /\ last'.op = "register_node" =>
                /\ DOMAIN reg1 = DOMAIN reg \cup {id}
                /\ heap'[reg1[id]] = last'.node
                /\ \A o \in DOMAIN reg \ {id} :
                      reg1[o] = reg[o] /\ heap'[reg[o]] = heap[reg[o]]
          /\ last'.op = "unregister_node" =>
                /\ DOMAIN reg1 = DOMAIN reg \ {id}
                /\ \A o \in DOMAIN reg \ {id} :
                      reg1[o] = reg[o] /\ heap'[reg[o]] = heap[reg[o]]
                /\ id \notin DOMAIN reg => (nodes' = nodes /\ heap' = heap)]_vars

\* X has just been replaced by a new object while Y, registered next to it,
\* has a failure on record
C23_Witness ==
    /\ last.op = "register_node" /\ last.node_id = "X"
    /\ Lookup(S, "X") > 2
    /\ Lookup(S, "Y") = 2
    /\ heap[2].error_count = 1

----------------------------------------------------------------------------
(* The backoff between the attempts of execute_with_retry                     *)

\* the step is the one named op of the call of task p
StepOf(p, op) == last'.op = op /\ last'.task = p

\* C24: when attempt k of a call fails with k < 3, the call sleeps
\* min(1 * 2^(k-1), 30) seconds, 1 s after the first attempt and 2 s after the
\* second, and attempt k + 1 starts no earlier; the call takes no delay before
\* its first attempt, after an attempt that succeeded or after the failure of
\* attempt 3.
C24_BackoffSchedule ==
    [][\A p \in DOMAIN tasks' :
          LET task1 == tasks'[p]
          IN /\ StepOf(p, "execute_with_retry") =>
                   /\ task1.delays = <<>>
                   /\ task1.pc # "sleeping"
                   /\ task1.attempt = 1
             /\ StepOf(p, "execute_fn_returned") =>
                   /\ task1.delays = tasks[p].delays
                   /\ task1.pc = "returned"
             /\ StepOf(p, "execute_fn_raised") =>
                   LET k == tasks[p].attempt
                       delay == IF k = 1 THEN 1 ELSE IF k = 2 THEN 2 ELSE 4
                   IN IF k < 3
                      THEN /\ task1.pc = "sleeping"
                           /\ task1.delays = Append(tasks[p].delays, delay)
                           /\ task1.wake_at = now + delay
                      ELSE /\ task1.pc = "raised"
                           /\ task1.delays = tasks[p].delays
             /\ StepOf(p, "sleep_done") =>
                   /\ now >= tasks[p].wake_at
                   /\ task1.attempt = tasks[p].attempt + 1
                   /\ task1.delays = tasks[p].delays
             /\ (p \in DOMAIN tasks /\ last'.op \notin
                    {"execute_with_retry", "execute_fn_returned",
                     "execute_fn_raised", "sleep_done"}) =>
                   task1 = tasks[p]]_vars

\* the second attempt has just failed and the call sleeps 2 s, after the 1 s
\* it slept before
C24_Witness ==
    /\ 1 \in DOMAIN tasks
    /\ last.op = "execute_fn_raised"
    /\ tasks[1].pc = "sleeping"
    /\ tasks[1].attempt = 2
    /\ tasks[1].delays = <<1, 2>>
    /\ tasks[1].wake_at = now + 2

----------------------------------------------------------------------------
(* Termination of execute_with_retry: the event loop runs, so time passes,   *)
(* a sleep that has elapsed is resumed, and the operation awaited returns or *)
(* raises                                                                     *)

MaxTerminationTime == 1     \* no call begins after this time
MaxTerminationErrors == 3   \* failures of X after which no other caller
                            \* reports one

\* a call sleeps and its deadline is still ahead
Sleeping == \E p \in DOMAIN tasks :
                tasks[p].pc = "sleeping" /\ now < tasks[p].wake_at

TimePasses == (now < MaxTerminationTime \/ Sleeping) /\ Tick(1)

Completes(p) ==
    \/ \E value \in Results : ExecReturn(p, value)
    \/ ExecRaise(p, Exception("timeout"))

NextTermination ==
    \/ TimePasses
    \/ heap[1].error_count < MaxTerminationErrors /\ ReportFailure("X")
    \/ \E p \in RetryTasks : ExecCall(p, "IMAGE_ANALYSIS", "MEDIUM")
    \/ \E p \in RetryTasks : Completes(p)
    \/ \E p \in RetryTasks : ExecWake(p)

SpecTermination ==
    /\ InitRetry
    /\ [][NextTermination]_vars
    /\ WF_vars(TimePasses)
    /\ \A p \in RetryTasks : WF_vars(Completes(p)) /\ WF_vars(ExecWake(p))

\* the call of task p is over
Over(p) == p \in DOMAIN tasks /\ tasks[p].pc \in {"returned", "raised"}

\* C25: a call of execute_with_retry invokes the operation at most 3 times
\* and sleeps at most twice; an invocation that returns is the last one and
\* the call returns with it; and, every invocation returning or raising in
\* the end, every call that began is eventually over, with a result or an
\* error.
C25_BoundedAndTerminates ==
    /\ [](\A p \in DOMAIN tasks :
             /\ Len(tasks[p].ops) <= MAX_RETRIES
             /\ Len(tasks[p].delays) <= MAX_RETRIES - 1
             /\ \A i \in DOMAIN tasks[p].ops :
                   tasks[p].ops[i].ok =>
                      /\ i = Len(tasks[p].ops)
                      /\ tasks[p].pc = "returned"
                      /\ tasks[p].outcome.ok)
    /\ \A p \in RetryTasks : (p \in DOMAIN tasks) ~> Over(p)

\* a call that began when the clock was at 1 is over at 4, after three
\* invocations that raised and the two delays between them
C25_Witness ==
    /\ Over(1)
    /\ tasks[1].pc = "raised"
    /\ Len(tasks[1].ops) = 3
    /\ tasks[1].delays = <<1, 2>>
    /\ now = 4

----------------------------------------------------------------------------
(* Expiry of the route cache, with nodes that fail while an entry is cached  *)

MaxExpiryTime == 61     \* time stops here
MaxExpiryErrors == 5    \* failures reported on X

ExpiryTickSteps == {20, 30, 31}

NextExpiry ==
    \/ \E d \in ExpiryTickSteps : now + d <= MaxExpiryTime /\ Tick(d)
    \/ \E pr \in RoutePriorities : RouteRequest("IMAGE_ANALYSIS", pr)
    \/ heap[1].error_count < MaxExpiryErrors /\ ReportFailure("X")

SpecExpiry == InitRetry /\ [][NextExpiry]_vars

\* the step is a route_request for a key that has an entry in the cache
RoutesCached(key) ==
    /\ last'.op = "route_request"
    /\ cache_key(last'.request_type, last'.priority) = key
    /\ key \in DOMAIN route_cache

\* an entry is served only while younger than the TTL and with its node
\* available, and serving it leaves the time of its creation
ServedWhileLive(key) ==
    (RoutesCached(key) /\ last'.ret.ok /\ last'.ret.cached)
    => /\ now - cache_timestamps[key] < cache_ttl
       /\ is_available(heap[route_cache[key].node], now).ret
       /\ last'.ret.node = route_cache[key].node
       /\ cache_timestamps' = cache_timestamps

\* the call returns a new selection and stores it as the entry of the key
Recomputed(key) ==
    /\ last'.ret.ok
    /\ ~last'.ret.cached
    /\ last'.ret.attempt = 1
    /\ last'.ret.node \in Candidates(last'.request_type)
    /\ route_cache'[key] = last'.ret
    /\ cache_timestamps'[key] = now

\* C26 as stated: an entry is served only while now - (its creation time) <
\* 30 s and its node is available, a hit does not extend its lifetime, and
\* once the TTL has elapsed the next route_request returns a new selection
\* with cached = false and attempt = 1 and replaces the entry and its
\* creation time.
C26_AsStated ==
    [][\A key \in DOMAIN route_cache :
          /\ ServedWhileLive(key)
          /\ (RoutesCached(key) /\ now - cache_timestamps[key] >= cache_ttl)
                => Recomputed(key)]_vars

\* C26 amended: the same, the call after the TTL replacing the entry when a
\* node of the pool is available; when none is, it returns None and leaves
\* the expired entry and its creation time in the cache.
C26_CacheExpiry ==
    [][\A key \in DOMAIN route_cache :
          /\ ServedWhileLive(key)
          /\ (RoutesCached(key) /\ now - cache_timestamps[key] >= cache_ttl)
                => IF Candidates(last'.request_type) # {}
                   THEN Recomputed(key)
                   ELSE /\ last'.ret = None
                        /\ route_cache' = route_cache
                        /\ cache_timestamps' = cache_timestamps]_vars

\* the entry created at 0 has been replaced by the call made at 30, no node
\* having failed
C26_Witness ==
    \E key \in DOMAIN routed :
        /\ last.op = "route_request"
        /\ cache_key(last.request_type, last.priority) = key
        /\ last.ret.ok /\ ~last.ret.cached
        /\ routed[key].prev = last.ret.node
        /\ cache_timestamps[key] = now
        /\ now = cache_ttl
        /\ \A r \in DOMAIN heap : heap[r].error_count = 0

----------------------------------------------------------------------------
(* Recovery of an open circuit: X has just failed 5 times and the requests   *)
(* that were in flight on it still report; time passes and route_request    *)
(* keeps being called                                                        *)

MaxInFlight == 2         \* requests in flight on X when its circuit opened
MaxInFlightTime == 31    \* they have reported by then
MaxRecoveryTime == 124   \* time stops here

RecoveryTickSteps == {31}

InitRecovery ==
    \E sy \in Services :
        InitFrom(Failed(Engine(Registered(<<"X", "Y">>,
                                          <<<<10, 10, 0, 100>>, <<90, 90, 50, 100>>>>,
                                          <<"minespotai-svc", sy>>)),
                        "X", CIRCUIT_FAILURE_THRESHOLD, 0))

TimeAdvances ==
    \E d \in RecoveryTickSteps : now + d <= MaxRecoveryTime /\ Tick(d)

InFlightReports ==
    /\ heap[1].request_count < CIRCUIT_FAILURE_THRESHOLD + MaxInFlight
    /\ now <= MaxInFlightTime
    /\ \/ ReportFailure("X")
       \/ \E ms \in ResponseTimes : ReportSuccess("X", ms)

NextRecovery ==
    \/ TimeAdvances
    \/ InFlightReports
    \/ RouteRequest("IMAGE_ANALYSIS", "MEDIUM")

SpecRecovery ==
    /\ InitRecovery
    /\ [][NextRecovery]_vars
    /\ WF_vars(TimeAdvances)
    /\ WF_vars(RouteRequest("IMAGE_ANALYSIS", "MEDIUM"))

\* C27: a node whose circuit is open is eventually DEGRADED and among the
\* nodes route_request may select for its pool, whenever time keeps advancing
\* and route_request keeps being called for a request type of its pool,
\* whatever the requests in flight when the circuit opened report, and when.
C27_EventuallyRoutable ==
    \A r \in {1} :
        (heap[r].status = "CIRCUIT_OPEN")
        ~> (heap[r].status = "DEGRADED" /\ r \in Candidates("IMAGE_ANALYSIS"))

\* X is DEGRADED after a request in flight failed at 31 and started the
\* recovery timeout again
C27_Witness ==
    /\ heap[1].status = "DEGRADED"
    /\ heap[1].circuit_opened_at > 0
    /\ heap[1].error_count = CIRCUIT_FAILURE_THRESHOLD + 1
    /\ last.op = "route_request"
    /\ now - heap[1].circuit_opened_at > CIRCUIT_RECOVERY_TIMEOUT

----------------------------------------------------------------------------
(* The circuit breaker on a success *)

\* C28: a success reported on a registered node sets consecutive_failures to
\* 0 and makes a DEGRADED node HEALTHY; a HEALTHY node stays HEALTHY, so a
\* node that was HEALTHY or DEGRADED is HEALTHY with consecutive_failures 0
\* afterwards; any other status is left as it is.
C28_SuccessClosesProbe ==
    [][\A r \in DOMAIN heap :
          SucceededOn(r) =>
             /\ heap'[r].consecutive_failures = 0
             /\ heap'[r].status = IF heap[r].status = "DEGRADED" THEN "HEALTHY"
                                  ELSE heap[r].status
             /\ heap[r].status \in {"HEALTHY", "DEGRADED"}
                   => heap'[r].status = "HEALTHY"]_vars

\* the first success reported on X, after the 5 failures that opened its
\* circuit and the recovery that made it DEGRADED, has made it HEALTHY
C28_Witness ==
    /\ last.op = "report_success" /\ last.node_id = "X"
    /\ heap[1].status = "HEALTHY"
    /\ heap[1].consecutive_failures = 0
    /\ heap[1].error_count = 5
    /\ heap[1].request_count = 6
    /\ heap[1].avg_response_time_ms = 300 * AvgScale

----------------------------------------------------------------------------
(* What an availability check changes *)

\* get_nodes_status, whose result shows what is_available returned, reports
\* v for object r
Reports(r, v) ==
    last'.op = "get_nodes_status"
    => \A i \in DOMAIN nodes : nodes[i] = r => last'.ret[i].is_available = v

\* C29: route_request and get_nodes_status, on each node they check: a
\* HEALTHY or DEGRADED node is reported available and not changed; a
\* CIRCUIT_OPEN node with now - circuit_opened_at <= 60, 60 included, is
\* reported unavailable and not changed; a CIRCUIT_OPEN node with now -
\* circuit_opened_at > 60 is reported available and only its status and
\* consecutive_failures change: request_count, error_count, weight,
\* active_connections, circuit_opened_at and the other fields stay.
C29_AvailabilityFrame ==
    [][\A r \in Range(nodes) :
          (last'.op \in {"route_request", "get_nodes_status"} /\ Checked(r))
          => LET n == heap[r]
                 age == now - n.circuit_opened_at
             IN IF n.status \in {"HEALTHY", "DEGRADED"}
                THEN heap'[r] = n /\ Reports(r, TRUE)
                ELSE IF age <= 60
                THEN heap'[r] = n /\ Reports(r, FALSE)
                ELSE /\ heap'[r] = [n EXCEPT !.status = "DEGRADED",
                                             !.consecutive_failures = 0]
                     /\ Reports(r, TRUE)]_vars

\* get_nodes_status at 60, the circuit of X open since 0: X is reported
\* unavailable and is still CIRCUIT_OPEN
C29_Witness ==
    /\ last.op = "get_nodes_status"
    /\ now = 60
    /\ heap[1].status = "CIRCUIT_OPEN"
    /\ heap[1].circuit_opened_at = 0
    /\ heap[1].consecutive_failures >= CIRCUIT_FAILURE_THRESHOLD
    /\ ~last.ret[1].is_available

----------------------------------------------------------------------------
(* The feedback of a failed attempt and the attempt that follows *)

\* C30: the step in which attempt k of a call fails, and which ends with the
\* call asleep or over, has already counted the failure on the node (opening
\* its circuit at 5 in a row), released its connection, lowered its weight
\* and appended the failure to the log; so while the call sleeps every failed
\* invocation has its record, and the selection of attempt k + 1, like any
\* caller meanwhile, sees the node as the failure left it: the attempt runs on
\* a node available then, or raises when there is none.
C30_FeedbackBeforeBackoff ==
    [][\A p \in DOMAIN tasks :
          LET r == tasks[p].node
              n == heap[r]
              n1 == heap'[r]
              rec == feedback_history'[Len(feedback_history')]
          IN /\ StepOf(p, "execute_fn_raised") =>
                   /\ tasks'[p].pc \in {"sleeping", "raised"}
                   /\ n1.error_count = n.error_count + 1
                   /\ n1.request_count = n.request_count + 1
                   /\ n1.consecutive_failures = n.consecutive_failures + 1
                   /\ n1.consecutive_failures >= 5 =>
                         (n1.status = "CIRCUIT_OPEN" /\ n1.circuit_opened_at = now)
                   /\ n1.active_connections = Max2(0, n.active_connections - 1)
                   /\ n1.weight = Max2(WeightMin, n.weight - 200000)
                   /\ feedback_history' = Append(feedback_history, rec)
                   /\ rec.node_id = n.node_id /\ ~rec.success
                   /\ tasks'[p].pc = "sleeping" =>
                         Len(Appended(p))' = Len(tasks'[p].ops)
             /\ StepOf(p, "sleep_done") =>
                   IF Candidates(tasks[p].request_type) = {}
                   THEN tasks'[p].pc = "raised"
                   ELSE /\ tasks'[p].pc = "executing"
                        /\ tasks'[p].node \in Candidates(tasks[p].request_type)
                        /\ Len(Appended(p)) = Len(tasks[p].ops)]_vars

\* the first attempt has failed on X, which had failed 4 times before: the
\* call sleeps, the circuit of X is open, its connection is released and the
\* failure is in the log
C30_Witness ==
    /\ 1 \in DOMAIN tasks
    /\ last = [op |-> "execute_fn_raised", task |-> 1]
    /\ tasks[1].pc = "sleeping"
    /\ tasks[1].attempt = 1
    /\ heap[1].status = "CIRCUIT_OPEN"
    /\ heap[1].consecutive_failures = CIRCUIT_FAILURE_THRESHOLD
    /\ heap[1].active_connections = 0
    /\ Len(feedback_history) = 1

----------------------------------------------------------------------------
(* Selections on nodes whose connections are at their maximum                *)

MaxAdmitted == 3          \* select_node calls not yet released, per node
MaxAdmissionTime == 31    \* time stops here

AdmissionTickSteps == {31}

InitAdmission ==
    \E sy \in Services :
        InitEngine(Registered(<<"X", "Y">>,
                              <<<<10, 10, 0, 1>>, <<10, 10, 2, 2>>>>,
                              <<"minespotai-svc", sy>>))

NextAdmission ==
    \/ \E d \in AdmissionTickSteps : now + d <= MaxAdmissionTime /\ Tick(d)
    \/ \E rt \in SelectionTypes, pr \in RoutePriorities :
          /\ ConnectionsBelow(MaxAdmitted)
          /\ SelectNode(rt, pr)
    \/ \E id \in NodeIds : ReleaseNode(id)

SpecAdmission == InitAdmission /\ [][NextAdmission]_vars

\* C31: select_node returns a node whenever a registered node of the pool is
\* HEALTHY or DEGRADED, whatever the connection counts: a node at or over
\* max_connections is still selected, and counted once more; a second caller
\* is given the node a first one holds.
C31_NoAdmissionControl ==
    [][last'.op = "select_node" =>
          LET pool == {r \in Range(nodes) :
                          /\ heap[r].status \in {"HEALTHY", "DEGRADED"}
                          /\ heap[r].service_name \in
                                Range(service_routing(last'.request_type))}
          IN /\ last'.ret.ok <=> pool # {}
             /\ last'.ret.ok =>
                   /\ last'.ret.node \in pool
                   /\ heap'[last'.ret.node].active_connections =
                         heap[last'.ret.node].active_connections + 1]_vars

\* X, of max_connections 1 and held twice already, has been selected a third
\* time, by a selection that was not served from the cache
C31_Witness ==
    /\ last.op = "select_node" /\ last.ret.ok /\ ~last.ret.cached
    /\ heap[last.ret.node].node_id = "X"
    /\ heap[last.ret.node].max_connections = 1
    /\ heap[last.ret.node].active_connections = 3

----------------------------------------------------------------------------
(* Routing and the registry *)

\* C32: the node route_request returns, from the cache or not, is an object
\* the registry holds at that moment: not the record of an id that was
\* unregistered, and, once a new record was registered under the id, not the
\* record it replaced.
C32_OnlyRegisteredNodes ==
    (last.op = "route_request" /\ last.ret.ok)
    => last.ret.node \in Range(nodes)

----------------------------------------------------------------------------
(* Routing over several pools, with nodes that fail and recover              *)

MaxPoolTime == 62        \* time stops here
MaxPoolErrors == 5       \* failures reported on X

PoolTypes == {"IMAGE_ANALYSIS", "DATABASE_QUERY", "GEO_SPATIAL"}
PoolTickSteps == {31}

NextPools ==
    \/ \E d \in PoolTickSteps : now + d <= MaxPoolTime /\ Tick(d)
    \/ \E rt \in PoolTypes, pr \in RoutePriorities : RouteRequest(rt, pr)
    \/ heap[1].error_count < MaxPoolErrors /\ ReportFailure("X")

SpecPools == InitRetry /\ [][NextPools]_vars

\* C33: the node returned by a route_request that succeeds, served from the
\* cache or not, has a service_name in the pool of the request type, is one
\* that is_available called at the time of the call finds available, and is
\* HEALTHY or DEGRADED, not CIRCUIT_OPEN, when the call returns.
C33_ReturnedNodeInPoolAndAvailable ==
    [][(last'.op = "route_request" /\ last'.ret.ok) =>
          LET r == last'.ret.node
          IN /\ heap'[r].service_name \in
                   Range(service_routing(last'.request_type))
             /\ is_available(heap[r], now).ret
             /\ heap[r].status = "CIRCUIT_OPEN" =>
                   now - heap[r].circuit_opened_at > 60
             /\ heap'[r].status \in {"HEALTHY", "DEGRADED"}]_vars

\* a GEO_SPATIAL request was served Y, of api-gateway, from the cache, while
\* the circuit of X, of the same pool and less loaded, is open
C33_Witness ==
    /\ last.op = "route_request" /\ last.request_type = "GEO_SPATIAL"
    /\ last.ret.ok /\ last.ret.cached
    /\ heap[last.ret.node].service_name = "api-gateway"
    /\ heap[1].status = "CIRCUIT_OPEN"

----------------------------------------------------------------------------
(* Concurrent calls of execute_with_retry *)

MaxConcurrentTime == 3     \* time stops here

ConcurrentTasks == {1, 2}

NextConcurrent ==
    \/ now < MaxConcurrentTime /\ Tick(1)
    \/ \E p \in ConcurrentTasks : ExecCall(p, "IMAGE_ANALYSIS", "MEDIUM")
    \/ \E p \in ConcurrentTasks, value \in Results : ExecReturn(p, value)
    \/ \E p \in ConcurrentTasks : ExecRaise(p, Exception("timeout"))
    \/ \E p \in ConcurrentTasks : ExecWake(p)

SpecConcurrent == InitRetry /\ [][NextConcurrent]_vars

\* the calls whose operation is being invoked on object r
InFlight(r) ==
    {p \in DOMAIN tasks : tasks[p].pc = "executing" /\ tasks[p].node = r}

\* C34: whatever the interleaving of the calls of execute_with_retry, the
\* active_connections of every node is the value it was registered with plus
\* the number of invocations in flight on it; so, all calls over, by a result
\* or by an error, every node has the value it was registered with.
C34_InFlightAccounting ==
    \A r \in DOMAIN heap :
        heap[r].active_connections = hist[r].conn0 + Cardinality(InFlight(r))

\* both calls are over, one by a result at its second attempt and one by the
\* error of its third, and X and Y have the connections they began with
C34_Witness ==
    /\ DOMAIN tasks = ConcurrentTasks
    /\ tasks[1].pc = "raised" /\ Len(tasks[1].ops) = 3
    /\ tasks[2].pc = "returned" /\ Len(tasks[2].ops) = 2
    /\ heap[1].active_connections = 0
    /\ heap[2].active_connections = 50

----------------------------------------------------------------------------
(* Reports that arrive while the circuit is open *)

\* C35: a success reported on a node whose circuit is open sets
\* consecutive_failures to 0 and leaves status CIRCUIT_OPEN and
\* circuit_opened_at, so the node is as unavailable after it as before, until
\* the recovery timeout; a node can then be CIRCUIT_OPEN with
\* consecutive_failures below 5.
C35_SuccessKeepsCircuitOpen ==
    [][\A r \in DOMAIN heap :
          (SucceededOn(r) /\ heap[r].status = "CIRCUIT_OPEN") =>
             /\ heap'[r].status = "CIRCUIT_OPEN"
             /\ heap'[r].consecutive_failures = 0
             /\ heap'[r].circuit_opened_at = heap[r].circuit_opened_at
             /\ is_available(heap'[r], now).ret = is_available(heap[r], now).ret
             /\ OpenAt(heap[r], now) => ~is_available(heap'[r], now).ret]_vars

\* after the success reported on X while its circuit was open,
\* get_nodes_status shows X unavailable, CIRCUIT_OPEN with
\* consecutive_failures 0
C35_Witness ==
    /\ last.op = "get_nodes_status"
    /\ heap[1].status = "CIRCUIT_OPEN"
    /\ heap[1].consecutive_failures = 0
    /\ heap[1].request_count = heap[1].error_count + 1
    /\ ~last.ret[1].is_available

\* C36: a failure reported on a node whose circuit is already open, its
\* consecutive_failures still 5 or more, leaves circuit_opened_at: the
\* recovery timeout runs from the moment the circuit opened, and an
\* availability check made more than 60 s after it finds the node available.
C36_WindowFromFirstOpening ==
    [][\A r \in DOMAIN heap :
          (/\ FailedOn(r)
           /\ heap[r].status = "CIRCUIT_OPEN"
           /\ heap[r].consecutive_failures >= CIRCUIT_FAILURE_THRESHOLD)
          => /\ heap'[r].circuit_opened_at = heap[r].circuit_opened_at
             /\ is_available(heap'[r], heap[r].circuit_opened_at
                                         + CIRCUIT_RECOVERY_TIMEOUT + 1).ret]_vars

----------------------------------------------------------------------------
(* The breaker on a node that has recovered *)

\* C37: a DEGRADED node is available; a failure reported on it adds 1 to
\* consecutive_failures, which the recovery had set to 0, and opens the
\* circuit again only when it is the 5th in a row since the recovery, the
\* node staying DEGRADED and available through the 4 before it; a success
\* reported on it makes it HEALTHY.
C37_DegradedLikeHealthy ==
    [][\A r \in DOMAIN heap :
          heap[r].status = "DEGRADED" =>
             /\ is_available(heap[r], now).ret
             /\ heap[r].consecutive_failures = hist[r].fails_np
             /\ heap[r].consecutive_failures < 5
             /\ FailedOn(r) =>
                   /\ heap'[r].consecutive_failures =
                         heap[r].consecutive_failures + 1
                   /\ heap'[r].status = IF hist[r].fails_np = 4
                                        THEN "CIRCUIT_OPEN" ELSE "DEGRADED"
             /\ SucceededOn(r) =>
                   /\ heap'[r].status = "HEALTHY"
                   /\ heap'[r].consecutive_failures = 0
             /\ (~FailedOn(r) /\ ~SucceededOn(r)) => heap'[r] = heap[r]]_vars

\* X has recovered and then failed 4 times in a row: it is still DEGRADED
C37_Witness ==
    /\ last.op = "report_failure" /\ last.node_id = "X"
    /\ heap[1].status = "DEGRADED"
    /\ heap[1].consecutive_failures = 4
    /\ heap[1].error_count = 9

----------------------------------------------------------------------------
(* Feedback recorded on registered and on unknown ids *)

MaxFeedbackLog == 3         \* feedbacks recorded
MaxFeedbackSelected == 2    \* select_node calls not yet released, per node

FeedbackNodeIds == {"X", "Z"}
FeedbackResponseTimes == {0, 1000}

NextFeedback ==
    \/ \E rt \in RouteTypes, pr \in RoutePriorities :
          /\ ConnectionsBelow(MaxFeedbackSelected)
          /\ SelectNode(rt, pr)
    \/ \E id \in FeedbackNodeIds, success \in BOOLEAN,
          ms \in FeedbackResponseTimes :
          /\ Len(feedback_history) < MaxFeedbackLog
          /\ RecordFeedback(id, success, ms, "IMAGE_ANALYSIS")
    \/ GetStats

SpecFeedback == Init /\ [][NextFeedback]_vars

\* the node n after one report, one release and one weight adjustment
Fed(n, success, response_time_ms, t) ==
    LET failures == n.consecutive_failures + 1
        reported ==
            IF success
            THEN [n EXCEPT !.request_count = @ + 1,
                           !.consecutive_failures = 0,
                           !.avg_response_time_ms =
                               (3 * response_time_ms * AvgScale + 7 * @) \div 10,
                           !.status = IF @ = "DEGRADED" THEN "HEALTHY" ELSE @]
            ELSE [n EXCEPT !.request_count = @ + 1,
                           !.error_count = @ + 1,
                           !.consecutive_failures = failures,
                           !.status = IF failures >= 5 THEN "CIRCUIT_OPEN" ELSE @,
                           !.circuit_opened_at = IF failures >= 5 THEN t ELSE @]
        gain == IF response_time_ms = 0 THEN 100000 ELSE 80000
    IN [reported EXCEPT
          !.active_connections = IF @ = 0 THEN 0 ELSE @ - 1,
          !.weight = IF success THEN Min2(2000000, @ + gain)
                     ELSE Max2(100000, @ - 200000)]

\* C38: record_feedback appends exactly one record to the log, for a node_id
\* of the registry or not; for one that is not, it changes no node, no
\* weight and no cache entry; on a registered node it makes one report of
\* the success or failure, one release of a connection and one adjustment of
\* the weight, and changes no other node. get_stats counts every record of
\* the log, those of unknown ids included, in total_requests and
\* success_rate.
C38_FeedbackEffects ==
    [][/\ last'.op = "record_feedback" =>
             LET ref == Lookup(S, last'.node_id)
                 rec == feedback_history'[Len(feedback_history')]
             IN /\ Len(feedback_history') = Len(feedback_history) + 1
                /\ feedback_history' = Append(feedback_history, rec)
                /\ rec.node_id = last'.node_id
                /\ rec.success = last'.success
                /\ rec.response_time_ms = last'.response_time_ms
                /\ rec.timestamp = now
                /\ nodes' = nodes
                /\ route_cache' = route_cache
                /\ cache_timestamps' = cache_timestamps
                /\ \A r \in DOMAIN heap :
                      heap'[r] = IF r = ref
                                 THEN Fed(heap[r], last'.success,
                                          last'.response_time_ms, now)
                                 ELSE heap[r]
       /\ last'.op = "get_stats" =>
             LET h == feedback_history
                 successes == Cardinality({i \in DOMAIN h : h[i].success})
             IN /\ last'.ret.total_requests = Len(h)
                /\ h # <<>> =>
                      last'.ret.success_rate * Len(h) \in
                         (10000 * successes - Len(h))..(10000 * successes + Len(h))]_vars

\* get_stats counts 2 requests, one of them a success, after a failure
\* recorded on the unknown Z and a success on X
C38_Witness ==
    /\ last.op = "get_stats"
    /\ last.ret.total_requests = 2
    /\ last.ret.success_rate = 5000
    /\ \E i \in DOMAIN feedback_history :
          feedback_history[i].node_id = "Z" /\ ~feedback_history[i].success
    /\ heap[1].request_count = 1 /\ heap[1].error_count = 0
    /\ heap[1].weight > WeightOne

====
